---- MODULE Spec2Model ----
(***************************************************************************)
(* anytra: a line-delimited JSON-RPC (MCP) server that enhances prompts.   *)
(*                                                                         *)
(*   interface/mcp/server.rs         run_stdio_server, handle_request      *)
(*   usecases/enhance_prompt.rs      EnhancePrompt::execute                *)
(*   infrastructure/providers/openrouter.rs   OpenRouterClient::enhance    *)
(*   domain/validation.rs            validate_enhanced_prompt, confidence  *)
(*   domain/sequential_thinking.rs   SequentialThinking                    *)
(*                                                                         *)
(* Actions are cut at the await points of the code (reading a line, one    *)
(* outbound request, one backoff sleep, writing a response); everything    *)
(* that runs between two await points is one step.                         *)
(***************************************************************************)
EXTENDS Integers, Sequences, FiniteSets, TLC

(***************************************************************************)
(* Option<T>: None is the empty tuple, Some(x) the one-element tuple.      *)
(***************************************************************************)
None == <<>>
Some(x) == <<x>>
IsSome(o) == Len(o) = 1
IsNone(o) == Len(o) = 0
Unwrap(o) == o[1]
UnwrapOr(o, d) == IF Len(o) = 1 THEN o[1] ELSE d

(***************************************************************************)
(* Text.  A String is a sequence of runs of bytes; a run is n >= 1 bytes   *)
(* of one class:                                                           *)
(*   "ws"    whitespace                                                    *)
(*   "w"     non-whitespace bytes that spell no denylisted word            *)
(*   "inappropriate", "offensive"  one occurrence of that word, in any     *)
(*           letter case (to_lowercase() makes the cases equal)            *)
(* Two adjacent non-whitespace runs belong to the same word.               *)
(***************************************************************************)
Run(k, n) == [k |-> k, n |-> n]
Ws(n) == Run("ws", n)
W(n) == Run("w", n)
Bad(word) == Run(word, Len(word))

RECURSIVE TextLen(_)
TextLen(t) == IF t = <<>> THEN 0 ELSE Head(t).n + TextLen(Tail(t))

IsBlank(t) == \A j \in 1..Len(t) : t[j].k = "ws"

RECURSIVE TrimStart(_)
TrimStart(t) == IF t # <<>> /\ Head(t).k = "ws" THEN TrimStart(Tail(t)) ELSE t

RECURSIVE TrimEnd(_)
TrimEnd(t) ==
    IF t # <<>> /\ t[Len(t)].k = "ws" THEN TrimEnd(SubSeq(t, 1, Len(t) - 1)) ELSE t

Trim(t) == TrimEnd(TrimStart(t))

\* str::split_whitespace().count(): the number of maximal non-whitespace stretches
word_count(t) ==
    Cardinality({j \in 1..Len(t) : t[j].k # "ws" /\ (j = 1 \/ t[j - 1].k = "ws")})

\* an occurrence of a denylisted word with some of its letters in upper case
BadCased(word) == [k |-> word, n |-> Len(word), cased |-> TRUE]

\* str::to_lowercase(): every letter in lower case
to_lowercase(t) == [j \in 1..Len(t) |-> Run(t[j].k, t[j].n)]

\* str::contains(word), for a denylisted word (which is in lower case)
contains(t, word) == \E j \in 1..Len(t) : t[j] = Run(word, Len(word))

\* text.to_lowercase().contains(word), for a denylisted word
ContainsLower(t, word) == contains(to_lowercase(t), word)

\* n words of wlen bytes, one space between two words
RECURSIVE Words(_, _)
Words(n, wlen) ==
    IF n = 0 THEN <<>>
    ELSE IF n = 1 THEN <<W(wlen)>>
    ELSE <<W(wlen), Ws(1)>> \o Words(n - 1, wlen)

(***************************************************************************)
(* JSON values (serde_json::Value).  Tool names and method names are       *)
(* strings of the model; a prompt or a thought is a JSON string whose      *)
(* content is a Text.                                                      *)
(***************************************************************************)
JNull == [t |-> "null"]
JBool(b) == [t |-> "bool", b |-> b]
\* a number hi * 2^32 + n with 0 <= n < 2^32 when hi > 0; JNum(n) is any integer n
JBig(hi, n) == [t |-> "num", hi |-> hi, n |-> n]
JNum(n) == JBig(0, n)
JStr(s) == [t |-> "str", s |-> s]
JText(x) == [t |-> "text", x |-> x]
JObj(o) == [t |-> "obj", o |-> o]
NoFields == <<>>

IsString(v) == v.t \in {"str", "text"}
\* Value::as_str() of a string
AsStr(v) == IF v.t = "text" THEN v.x ELSE v.s
Has(v, f) == v.t = "obj" /\ f \in DOMAIN v.o
\* Value::as_u64() is Some: a non-negative integer (every number of the model fits 64 bits)
IsU64(v) == v.t = "num" /\ v.hi >= 0 /\ v.n >= 0
\* `as u32`: the low 32 bits
AsU32(v) == v.n
\* deserializing an integer as u8
IsU8(v) == v.t = "num" /\ v.hi = 0 /\ v.n >= 0 /\ v.n <= 255

(***************************************************************************)
(* domain/validation.rs                                                    *)
(***************************************************************************)
MinLen == 10
MaxLen == 5000
MinWords == 10
bad_words == <<"inappropriate", "offensive">>

VErr(name, word) == [cls |-> "validation", name |-> name, arg |-> word]
Ok(v) == [ok |-> TRUE, val |-> v]
Err(e) == [ok |-> FALSE, err |-> e]

\* FirstBadWord as the denylisted word that occurs first in the text
FirstBadWordInText(text) ==
    LET occ == {j \in 1..Len(text) :
                  \E w \in 1..Len(bad_words) : contains(to_lowercase(<<text[j]>>), bad_words[w])}
    IN  IF occ = {} THEN None
        ELSE Some(text[CHOOSE j \in occ : \A h \in occ : j <= h].k)

\* the first denylisted word, in denylist order, that the text contains
FirstBadWord(text) ==
    LET hits == {j \in 1..Len(bad_words) : ContainsLower(text, bad_words[j])}
    IN  IF hits = {} THEN None
        ELSE Some(bad_words[CHOOSE j \in hits : \A h \in hits : j <= h])

\* validate_enhanced_prompt with the word count checked before the lengths
validate_words_first(prompt) ==
    IF IsBlank(prompt.text) THEN Err(VErr("EmptyPrompt", ""))
    ELSE IF word_count(prompt.text) < MinWords THEN Err(VErr("TooSimple", ""))
    ELSE IF TextLen(prompt.text) < MinLen THEN Err(VErr("TooShort", ""))
    ELSE IF TextLen(prompt.text) > MaxLen THEN Err(VErr("TooLong", ""))
    ELSE IF IsSome(FirstBadWord(prompt.text))
         THEN Err(VErr("InappropriateContent", Unwrap(FirstBadWord(prompt.text))))
    ELSE Ok(TRUE)

\* validate_enhanced_prompt with the word limit off by one
validate_words_off_by_one(prompt) ==
    IF IsBlank(prompt.text) THEN Err(VErr("EmptyPrompt", ""))
    ELSE IF TextLen(prompt.text) < MinLen THEN Err(VErr("TooShort", ""))
    ELSE IF TextLen(prompt.text) > MaxLen THEN Err(VErr("TooLong", ""))
    ELSE IF word_count(prompt.text) + 1 < MinWords THEN Err(VErr("TooSimple", ""))
    ELSE IF IsSome(FirstBadWord(prompt.text))
         THEN Err(VErr("InappropriateContent", Unwrap(FirstBadWord(prompt.text))))
    ELSE Ok(TRUE)

\* validate_enhanced_prompt with both length limits off by one
validate_len_off_by_one(prompt) ==
    IF IsBlank(prompt.text) THEN Err(VErr("EmptyPrompt", ""))
    ELSE IF TextLen(prompt.text) + 1 < MinLen THEN Err(VErr("TooShort", ""))
    ELSE IF TextLen(prompt.text) > MaxLen + 1 THEN Err(VErr("TooLong", ""))
    ELSE IF word_count(prompt.text) < MinWords THEN Err(VErr("TooSimple", ""))
    ELSE IF IsSome(FirstBadWord(prompt.text))
         THEN Err(VErr("InappropriateContent", Unwrap(FirstBadWord(prompt.text))))
    ELSE Ok(TRUE)

validate_enhanced_prompt(prompt) ==
    IF IsBlank(prompt.text) THEN Err(VErr("EmptyPrompt", ""))
    ELSE IF TextLen(prompt.text) < MinLen THEN Err(VErr("TooShort", ""))
    ELSE IF TextLen(prompt.text) > MaxLen THEN Err(VErr("TooLong", ""))
    ELSE IF word_count(prompt.text) < MinWords THEN Err(VErr("TooSimple", ""))
    ELSE IF IsSome(FirstBadWord(prompt.text))
         THEN Err(VErr("InappropriateContent", Unwrap(FirstBadWord(prompt.text))))
    ELSE Ok(TRUE)

\* A confidence is the exact fraction num/den (the code computes it in f32).
LenCap == 1000
WordCap == 50
Frac(num, den) == [num |-> num, den |-> den]
FracLeq(a, b) == a.num * b.den <= b.num * a.den
FracEq(a, b) == a.num * b.den = b.num * a.den
Min(a, b) == IF a <= b THEN a ELSE b

\* compute_confidence with the two scores added and not halved
compute_confidence_sum(prompt) ==
    Frac(Min(TextLen(prompt.text), LenCap) * WordCap
            + Min(word_count(prompt.text), WordCap) * LenCap,
         LenCap * WordCap)

\* (min(len/1000, 1) + min(words/50, 1)) / 2
compute_confidence(prompt) ==
    Frac(Min(TextLen(prompt.text), LenCap) * WordCap
            + Min(word_count(prompt.text), WordCap) * LenCap,
         2 * LenCap * WordCap)

(***************************************************************************)
(* domain/sequential_thinking.rs                                           *)
(***************************************************************************)
ThoughtData_new(thought, thought_number, total_thoughts, next_thought_needed) ==
    [thought |-> thought,
     thought_number |-> thought_number,
     total_thoughts |-> total_thoughts,
     is_revision |-> None,
     revises_thought |-> None,
     branch_from_thought |-> None,
     branch_id |-> None,
     needs_more_thoughts |-> None,
     next_thought_needed |-> next_thought_needed]

with_revision(td, revises_thought) ==
    [td EXCEPT !.is_revision = Some(TRUE), !.revises_thought = Some(revises_thought)]

with_branch(td, branch_from_thought, branch_id) ==
    [td EXCEPT !.branch_from_thought = Some(branch_from_thought),
               !.branch_id = Some(branch_id)]

TErr(msg) == [cls |-> "thinking", name |-> msg, arg |-> ""]

validate_thought_data(input) ==
    IF input.t # "obj" THEN Err(TErr("Input must be a JSON object"))
    ELSE IF ~(Has(input, "thought") /\ IsString(input.o.thought))
         THEN Err(TErr("Invalid thought: must be a string"))
    ELSE IF ~(Has(input, "thoughtNumber") /\ IsU64(input.o.thoughtNumber))
         THEN Err(TErr("Invalid thoughtNumber: must be a number"))
    ELSE IF ~(Has(input, "totalThoughts") /\ IsU64(input.o.totalThoughts))
         THEN Err(TErr("Invalid totalThoughts: must be a number"))
    ELSE IF ~(Has(input, "nextThoughtNeeded") /\ input.o.nextThoughtNeeded.t = "bool")
         THEN Err(TErr("Invalid nextThoughtNeeded: must be a boolean"))
    ELSE
      LET branch_from_thought ==
              IF Has(input, "branchFromThought") /\ IsU64(input.o.branchFromThought)
              THEN Some(AsU32(input.o.branchFromThought)) ELSE None
          branch_id ==
              IF Has(input, "branchId") /\ IsString(input.o.branchId)
              THEN Some(AsStr(input.o.branchId)) ELSE None
          td == ThoughtData_new(AsStr(input.o.thought),
                                AsU32(input.o.thoughtNumber),
                                AsU32(input.o.totalThoughts),
                                input.o.nextThoughtNeeded.b)
      IN  IF IsSome(branch_from_thought) /\ IsSome(branch_id)
          THEN Ok(with_branch(td, Unwrap(branch_from_thought), Unwrap(branch_id)))
          ELSE Ok(td)

\* the diagnostic line, as its parts: marker, number/total, context, thought
format_thought(td) ==
    [prefix |-> IF UnwrapOr(td.is_revision, FALSE) THEN "Revision"
                ELSE IF IsSome(td.branch_from_thought) THEN "Branch"
                ELSE "Thought",
     thought_number |-> td.thought_number,
     total_thoughts |-> td.total_thoughts,
     context |-> IF IsSome(td.revises_thought)
                 THEN [of |-> "revising", n |-> td.revises_thought, id |-> None]
                 ELSE IF IsSome(td.branch_from_thought)
                 THEN [of |-> "from", n |-> td.branch_from_thought, id |-> td.branch_id]
                 ELSE [of |-> "", n |-> None, id |-> None],
     thought |-> td.thought]

\* BranchPush with the new record put first
BranchPushFront(br, id, td) ==
    [b \in DOMAIN br \cup {id} |->
        IF b = id THEN (IF id \in DOMAIN br THEN <<td>> \o br[id] ELSE <<td>>)
        ELSE br[b]]

\* self.branches.entry(id).or_insert_with(Vec::new).push(td)
BranchPush(br, id, td) ==
    [b \in DOMAIN br \cup {id} |->
        IF b = id THEN (IF id \in DOMAIN br THEN Append(br[id], td) ELSE <<td>>)
        ELSE br[b]]

\* record_thought with total_thoughts left as it came
record_thought_no_raise(hist, br, td0) ==
    LET hist2 == Append(hist, td0)
        br2 == IF IsSome(td0.branch_from_thought) /\ IsSome(td0.branch_id)
               THEN BranchPush(br, Unwrap(td0.branch_id), td0)
               ELSE br
    IN  [ok |-> TRUE,
         hist |-> hist2,
         br |-> br2,
         line |-> format_thought(td0),
         val |-> [thoughtNumber |-> td0.thought_number,
                  totalThoughts |-> td0.total_thoughts,
                  nextThoughtNeeded |-> td0.next_thought_needed,
                  branches |-> DOMAIN br2,
                  thoughtHistoryLength |-> Len(hist2)]]

\* record_thought with the history holding the latest record only
record_thought_latest_only(hist, br, td0) ==
    LET td == IF td0.thought_number > td0.total_thoughts
              THEN [td0 EXCEPT !.total_thoughts = td0.thought_number]
              ELSE td0
        hist2 == <<td>>
        br2 == IF IsSome(td.branch_from_thought) /\ IsSome(td.branch_id)
               THEN BranchPush(br, Unwrap(td.branch_id), td)
               ELSE br
    IN  [ok |-> TRUE,
         hist |-> hist2,
         br |-> br2,
         line |-> format_thought(td),
         val |-> [thoughtNumber |-> td.thought_number,
                  totalThoughts |-> td.total_thoughts,
                  nextThoughtNeeded |-> td.next_thought_needed,
                  branches |-> DOMAIN br2,
                  thoughtHistoryLength |-> Len(hist2)]]

\* record_thought returning the branch of the current record only
record_thought_own_branch(hist, br, td0) ==
    LET td == IF td0.thought_number > td0.total_thoughts
              THEN [td0 EXCEPT !.total_thoughts = td0.thought_number]
              ELSE td0
        hist2 == Append(hist, td)
        onBranch == IsSome(td.branch_from_thought) /\ IsSome(td.branch_id)
        br2 == IF onBranch THEN BranchPush(br, Unwrap(td.branch_id), td) ELSE br
    IN  [ok |-> TRUE,
         hist |-> hist2,
         br |-> br2,
         line |-> format_thought(td),
         val |-> [thoughtNumber |-> td.thought_number,
                  totalThoughts |-> td.total_thoughts,
                  nextThoughtNeeded |-> td.next_thought_needed,
                  branches |-> IF onBranch THEN {Unwrap(td.branch_id)} ELSE {},
                  thoughtHistoryLength |-> Len(hist2)]]

\* process_thought after validate_thought_data(&input)? gave td0
record_thought(hist, br, td0) ==
    LET td == IF td0.thought_number > td0.total_thoughts
              THEN [td0 EXCEPT !.total_thoughts = td0.thought_number]
              ELSE td0
        hist2 == Append(hist, td)
        br2 == IF IsSome(td.branch_from_thought) /\ IsSome(td.branch_id)
               THEN BranchPush(br, Unwrap(td.branch_id), td)
               ELSE br
    IN  [ok |-> TRUE,
         hist |-> hist2,
         br |-> br2,
         line |-> format_thought(td),
         val |-> [thoughtNumber |-> td.thought_number,
                  totalThoughts |-> td.total_thoughts,
                  nextThoughtNeeded |-> td.next_thought_needed,
                  branches |-> DOMAIN br2,
                  thoughtHistoryLength |-> Len(hist2)]]

\* process_validated refusing a thought number above the total
process_validated_strict(hist, br, v) ==
    IF ~v.ok THEN [ok |-> FALSE, err |-> v.err, hist |-> hist, br |-> br]
    ELSE IF v.val.thought_number > v.val.total_thoughts
    THEN [ok |-> FALSE, err |-> TErr("thoughtNumber exceeds totalThoughts"),
          hist |-> hist, br |-> br]
    ELSE record_thought(hist, br, v.val)

process_validated(hist, br, v) ==
    IF ~v.ok THEN [ok |-> FALSE, err |-> v.err, hist |-> hist, br |-> br]
    ELSE record_thought(hist, br, v.val)

\* process_thought on a session (hist, br): the session afterwards, the value
\* returned (val) and the line printed to stderr (line)
process_thought(hist, br, input) ==
    process_validated(hist, br, validate_thought_data(input))

(***************************************************************************)
(* domain/models.rs, domain/llm.rs                                         *)
(***************************************************************************)
Prompt(text) == [text |-> text]
EnhancedPrompt(text, rationale, confidence) ==
    [text |-> text, rationale |-> rationale, confidence |-> confidence]
LLMError(name, detail) == [cls |-> "provider", name |-> name, arg |-> detail]

(***************************************************************************)
(* infrastructure/providers/openrouter.rs: OpenRouterClient::enhance       *)
(***************************************************************************)
MAX_RETRIES == 3
BaseDelayMs == 500

\* format!("Enhanced: {}", prompt.text)
FallbackText(text) == <<W(9), Ws(1)>> \o text

\* Fallback with another confidence
FallbackHalf(prompt) ==
    EnhancedPrompt(FallbackText(prompt.text),
                   Some("Fallback due to API failure after retries"),
                   Some(Frac(1, 2)))

Fallback(prompt) ==
    EnhancedPrompt(FallbackText(prompt.text),
                   Some("Fallback due to API failure after retries"),
                   Some(Frac(3, 10)))

\* BackoffDelay with the exponent not shifted
BackoffDelayNoShift(n) == BaseDelayMs * 2^n

\* 500 * 2u64.pow(attempts - 1)
BackoffDelay(n) == BaseDelayMs * 2^(n - 1)

\* what the code after the retry loop makes of a response
ReadResponse(r) ==
    IF ~r.success THEN Err(LLMError("RequestFailed", "status"))
    ELSE IF r.body = "unparsable" THEN Err(LLMError("UnexpectedResponse", "body"))
    ELSE IF r.body = "nochoices" THEN Err(LLMError("UnexpectedResponse", "no choices"))
    ELSE Ok(EnhancedPrompt(Trim(r.content), None, None))

\* RetryAfter with `>` for `>=`
RetryAfterOffByOne(n) == ~(n > MAX_RETRIES)

\* whether the retry loop goes round again after a send() error at this attempt count
RetryAfter(n) == ~(n >= MAX_RETRIES)

\* IsTransportError with a non-success status retried like a send() error
IsTransportErrorOrStatus(o) == o.send = "err" \/ ~o.success

\* the Err(_e) arm of `match ...send().await`
IsTransportError(o) == o.send = "err"

(***************************************************************************)
(* infrastructure/config.rs                                                *)
(*                                                                         *)
(* The value of an environment variable is a sequence of characters, each  *)
(* with its letter (or digit, or space) and whether it is upper case.  A   *)
(* variable is unset (None) or set to a value that is valid Unicode or not.*)
(***************************************************************************)
Chars(cs, caps) == [i \in 1..Len(cs) |-> [ch |-> cs[i], up |-> i \in caps]]

\* a string literal of the source: all lower case
Lit(cs) == Chars(cs, {})

EnvSet(str) == Some([unicode |-> TRUE, str |-> str])
EnvNotUnicode == Some([unicode |-> FALSE, str |-> <<>>])

\* env::var(name): Ok(val) when the variable is set to valid Unicode
env_var(e) == IF IsSome(e) /\ Unwrap(e).unicode THEN Ok(Unwrap(e).str) ELSE Err("VarError")

\* val.to_lowercase()
str_to_lowercase(str) == [i \in 1..Len(str) |-> [ch |-> str[i].ch, up |-> FALSE]]

TrueWords == {Lit(<<"t", "r", "u", "e">>), Lit(<<"1">>), Lit(<<"y", "e", "s">>),
              Lit(<<"o", "n">>)}
FalseWords == {Lit(<<"f", "a", "l", "s", "e">>), Lit(<<"0">>), Lit(<<"n", "o">>),
               Lit(<<"o", "f", "f">>)}

\* the match on val_lower.as_str()
MatchDefault(val_lower) ==
    IF val_lower \in TrueWords THEN TRUE
    ELSE IF val_lower \in FalseWords THEN FALSE
    ELSE TRUE

\* get_enable_sequential_thinking_default with the case kept
get_default_case_sensitive(e) ==
    IF env_var(e).ok THEN MatchDefault(env_var(e).val) ELSE TRUE

\* get_enable_sequential_thinking_default(), e the ENABLE_SEQUENTIAL_THINKING
\* of the environment
get_enable_sequential_thinking_default(e) ==
    IF env_var(e).ok THEN MatchDefault(str_to_lowercase(env_var(e).val)) ELSE TRUE

(***************************************************************************)
(* usecases/enhance_prompt.rs: EnhancePrompt::execute                      *)
(*                                                                         *)
(* execute() suspends only inside provider.enhance().  AfterEnhance is     *)
(* the code that runs when a provider call returns, up to the next         *)
(* provider call (call is Some) or to the return of execute (ret is Some). *)
(***************************************************************************)
DefaultThoughtCount == 3

EnhancementOptions(goal, style, tone, level, audience, language, est, tc) ==
    [goal |-> goal, style |-> style, tone |-> tone, level |-> level,
     audience |-> audience, language |-> language,
     enable_sequential_thinking |-> est, thought_count |-> tc]

\* ThoughtInput asking for a next thought every time
ThoughtInputAlwaysMore(text, k, n) ==
    JObj([thought |-> JText(text),
          thoughtNumber |-> JNum(k),
          totalThoughts |-> JNum(n),
          nextThoughtNeeded |-> JBool(TRUE)])

\* json!({"thought": .., "thoughtNumber": i, "totalThoughts": n, "nextThoughtNeeded": ..})
ThoughtInput(text, k, n) ==
    JObj([thought |-> JText(text),
          thoughtNumber |-> JNum(k),
          totalThoughts |-> JNum(n),
          nextThoughtNeeded |-> JBool(~(k = n))])

\* next_options with the options passed on as they are
next_options_unchanged(opts) == opts

next_options(opts) == [opts EXCEPT !.enable_sequential_thinking = Some(FALSE)]

Returns(res, enh, k, hist, br) ==
    [ret |-> Some(res), call |-> None, enhanced |-> enh, iter |-> k,
     hist |-> hist, br |-> br]

Calls(p, o, enh, k, hist, br) ==
    [ret |-> None, call |-> Some([prompt |-> p, options |-> o]), enhanced |-> enh,
     iter |-> k, hist |-> hist, br |-> br]

\* iteration k of the for loop after process_thought returned pt
AfterThought(k, enh, hist, br, opts, is_last_thought, pt) ==
    IF ~pt.ok THEN Returns(Ok(enh), Some(enh), k, hist, br)
    ELSE IF ~is_last_thought
         THEN Calls(Prompt(enh.text), next_options(opts), Some(enh), k, pt.hist, pt.br)
    ELSE Returns(Ok(enh), Some(enh), k, pt.hist, pt.br)

\* RefineFrom with one iteration more than thought_count
RefineFromOneMore(k, enh, hist, br, opts) ==
    LET thought_count == UnwrapOr(opts.thought_count, DefaultThoughtCount) IN
    IF k > thought_count + 1 THEN Returns(Ok(enh), Some(enh), k, hist, br)
    ELSE AfterThought(k, enh, hist, br, opts, k = thought_count + 1,
                      process_thought(hist, br, ThoughtInput(enh.text, k, thought_count)))

\* the for loop from iteration k on, with enh the current value of `enhanced`
RefineFrom(k, enh, hist, br, opts) ==
    LET thought_count == UnwrapOr(opts.thought_count, DefaultThoughtCount) IN
    IF k > thought_count THEN Returns(Ok(enh), Some(enh), k, hist, br)
    ELSE AfterThought(k, enh, hist, br, opts, k = thought_count,
                      process_thought(hist, br, ThoughtInput(enh.text, k, thought_count)))

\* AfterValidation with the configured default deciding when it is enabled
AfterValidationDefaultWins(enh, k, hist, br, opts, config_default) ==
    IF config_default \/ UnwrapOr(opts.enable_sequential_thinking, FALSE)
    THEN RefineFrom(1, enh, <<>>, <<>>, opts)
    ELSE Returns(Ok(enh), Some(enh), k, hist, br)

\* the first provider call returned Ok(e) and e passed the Validation Gate
AfterValidation(enh, k, hist, br, opts, config_default) ==
    IF UnwrapOr(opts.enable_sequential_thinking, config_default)
    THEN RefineFrom(1, enh, <<>>, <<>>, opts)
    ELSE Returns(Ok(enh), Some(enh), k, hist, br)

\* AfterFirst with the Validation Gate left out
AfterFirstUnchecked(e, v, k, hist, br, opts, config_default) ==
    AfterValidation([e EXCEPT !.confidence = Some(compute_confidence(e))],
                    k, hist, br, opts, config_default)

\* AfterFirst with the fallback taken for a rejected result
AfterFirstFallsBack(e, v, k, hist, br, opts, config_default) ==
    IF ~v.ok THEN Returns(Ok(Fallback(Prompt(e.text))), Some(e), k, hist, br)
    ELSE AfterValidation([e EXCEPT !.confidence = Some(compute_confidence(e))],
                         k, hist, br, opts, config_default)

AfterFirst(e, v, k, hist, br, opts, config_default) ==
    IF ~v.ok THEN Returns(Err(v.err), Some(e), k, hist, br)
    ELSE AfterValidation([e EXCEPT !.confidence = Some(compute_confidence(e))],
                         k, hist, br, opts, config_default)

\* k = 0: the first provider call returned r; k >= 1: the call of iteration k did
AfterEnhance(r, k, hist, br, opts, config_default) ==
    IF ~r.ok THEN Returns(Err(r.err), None, k, hist, br)
    ELSE IF k = 0
         THEN AfterFirst(r.val, validate_enhanced_prompt(r.val), k, hist, br, opts,
                         config_default)
    ELSE RefineFrom(k + 1, r.val, hist, br, opts)

(***************************************************************************)
(* interface/mcp/server.rs                                                 *)
(***************************************************************************)
PARSE_ERROR == -32700
METHOD_NOT_FOUND == -32601
INVALID_PARAMS == -32602

RpcResult(id, result) == [id |-> id, result |-> Some(result), error |-> None]
\* RpcError with both members set
RpcErrorWithResult(id, code, message) ==
    [id |-> id, result |-> Some([kind |-> "error"]),
     error |-> Some([code |-> code, message |-> message])]

RpcError(id, code, message) ==
    [id |-> id, result |-> None, error |-> Some([code |-> code, message |-> message])]

\* serde_json::from_str::<JsonRpcRequest>(&line); line.json is None when the
\* line is no JSON text at all
ParseRequest(line) ==
    IF IsNone(line.json) THEN Err("not json")
    ELSE LET v == Unwrap(line.json) IN
      IF v.t # "obj" THEN Err("not an object")
      ELSE IF Has(v, "jsonrpc") /\ ~IsString(v.o.jsonrpc) THEN Err("jsonrpc")
      ELSE IF ~(Has(v, "method") /\ IsString(v.o.method)) THEN Err("method")
      ELSE Ok([id |-> IF Has(v, "id") /\ v.o.id.t # "null" THEN Some(v.o.id) ELSE None,
               method |-> AsStr(v.o.method),
               params |-> IF Has(v, "params") THEN v.o.params ELSE JNull])

\* serde_json::from_value::<ToolCallParams>(params)
ParseToolCallParams(params) ==
    IF params.t # "obj" THEN Err("not an object")
    ELSE IF ~(Has(params, "name") /\ IsString(params.o.name)) THEN Err("name")
    ELSE Ok([name |-> AsStr(params.o.name),
             arguments |-> IF Has(params, "arguments") THEN params.o.arguments ELSE JNull])

\* an Option<String> field with #[serde(default)]
OptStringOk(a, f) == ~Has(a, f) \/ a.o[f].t = "null" \/ IsString(a.o[f])
OptString(a, f) == IF Has(a, f) /\ IsString(a.o[f]) THEN Some(AsStr(a.o[f])) ELSE None
OptStringFields == {"goal", "style", "tone", "audience", "language"}

\* ParseEnhanceArgs with a mistyped optional field read as absent
ParseEnhanceArgsLenient(a) ==
    IF a.t # "obj" THEN Err("not an object")
    ELSE IF ~(Has(a, "prompt") /\ IsString(a.o.prompt)) THEN Err("prompt")
    ELSE Ok([prompt |-> AsStr(a.o.prompt),
             goal |-> OptString(a, "goal"),
             style |-> OptString(a, "style"),
             tone |-> OptString(a, "tone"),
             level |-> IF Has(a, "level") /\ IsU8(a.o.level) THEN Some(a.o.level.n) ELSE None,
             audience |-> OptString(a, "audience"),
             language |-> OptString(a, "language")])

\* serde_json::from_value::<EnhanceArgs>(arguments)
ParseEnhanceArgs(a) ==
    IF a.t # "obj" THEN Err("not an object")
    ELSE IF ~(Has(a, "prompt") /\ IsString(a.o.prompt)) THEN Err("prompt")
    ELSE IF \E f \in OptStringFields : ~OptStringOk(a, f) THEN Err("string field")
    ELSE IF Has(a, "level") /\ a.o.level.t # "null" /\ ~IsU8(a.o.level) THEN Err("level")
    ELSE Ok([prompt |-> AsStr(a.o.prompt),
             goal |-> OptString(a, "goal"),
             style |-> OptString(a, "style"),
             tone |-> OptString(a, "tone"),
             level |-> IF Has(a, "level") /\ IsU8(a.o.level) THEN Some(a.o.level.n) ELSE None,
             audience |-> OptString(a, "audience"),
             language |-> OptString(a, "language")])

\* ToolCallResponse with a failed execute() surfaced as a JSON-RPC error
ToolCallResponseRpcError(id, res) ==
    IF res.ok
    THEN RpcResult(id, [kind |-> "content",
                        text |-> [lit |-> "", txt |-> res.val.text, err |-> None],
                        isError |-> None])
    ELSE RpcError(id, -32603, "tool error")

\* the two arms of `match res` after usecase.execute()
ToolCallResponse(id, res) ==
    IF res.ok
    THEN RpcResult(id, [kind |-> "content",
                        text |-> [lit |-> "", txt |-> res.val.text, err |-> None],
                        isError |-> None])
    ELSE RpcResult(id, [kind |-> "content",
                        text |-> [lit |-> "tool error: ", txt |-> <<>>, err |-> Some(res.err)],
                        isError |-> Some(TRUE)])

\* handle_request up to its answer (resp) or to the call of usecase.execute (exec)
Answer(r) == [resp |-> Some(r), exec |-> None]
Execute(p, o) == [resp |-> None, exec |-> Some([prompt |-> p, options |-> o])]

\* handle_tools_call with the arguments parsed before the tool name is checked
handle_tools_call_ArgsFirst(req) ==
    LET params == ParseToolCallParams(req.params) IN
    IF ~params.ok THEN Answer(RpcError(req.id, INVALID_PARAMS, "invalid params"))
    ELSE IF ~ParseEnhanceArgs(params.val.arguments).ok
         THEN Answer(RpcError(req.id, INVALID_PARAMS, "invalid arguments"))
    ELSE Answer(RpcError(req.id, METHOD_NOT_FOUND, "unknown tool"))

\* handle_tools_call with the tool name not looked at
handle_tools_call_AnyTool(req) ==
    LET params == ParseToolCallParams(req.params) IN
    IF ~params.ok THEN Answer(RpcError(req.id, INVALID_PARAMS, "invalid params"))
    ELSE
      LET args == ParseEnhanceArgs(params.val.arguments) IN
      IF ~args.ok THEN Answer(RpcError(req.id, INVALID_PARAMS, "invalid arguments"))
      ELSE LET a == args.val IN
           Execute(Prompt(a.prompt),
                   EnhancementOptions(a.goal, a.style, a.tone, a.level, a.audience,
                                      a.language, None, None))

handle_tools_call(req) ==
    LET params == ParseToolCallParams(req.params) IN
    IF ~params.ok THEN Answer(RpcError(req.id, INVALID_PARAMS, "invalid params"))
    ELSE IF params.val.name # "enhance_prompt"
         THEN Answer(RpcError(req.id, METHOD_NOT_FOUND, "unknown tool"))
    ELSE
      LET args == ParseEnhanceArgs(params.val.arguments) IN
      IF ~args.ok THEN Answer(RpcError(req.id, INVALID_PARAMS, "invalid arguments"))
      ELSE LET a == args.val IN
           Execute(Prompt(a.prompt),
                   EnhancementOptions(a.goal, a.style, a.tone, a.level, a.audience,
                                      a.language, None, None))

handle_request(req) ==
    IF req.method \in {"initialize", "mcp/initialize"}
      THEN Answer(RpcResult(req.id, [kind |-> "initialize"]))
    ELSE IF req.method = "tools/list" THEN Answer(RpcResult(req.id, [kind |-> "tools"]))
    ELSE IF req.method = "tools/call" THEN handle_tools_call(req)
    ELSE IF req.method = "ping" THEN Answer(RpcResult(req.id, [kind |-> "pong"]))
    ELSE IF req.method = "shutdown" THEN Answer(RpcResult(req.id, [kind |-> "ok"]))
    ELSE Answer(RpcError(req.id, METHOD_NOT_FOUND, "unknown method"))

\* shutting_down as a flag that is set
shutting_down_set == TRUE

\* `let shutting_down = false;` is never assigned again
shutting_down == FALSE

(***************************************************************************)
(* The input stream and the backend.                                       *)
(***************************************************************************)
MaxLines == 3

P_short == <<W(5), Ws(1), W(4)>>
P_long == Words(9, 4)
T_good == <<Ws(1)>> \o Words(12, 5) \o <<Ws(2)>>
T_short == <<W(3), Ws(1), W(5)>>

GoodArgs ==
    {JObj([prompt |-> JText(P_short)]),
     JObj([prompt |-> JText(P_long), goal |-> JStr("g"), level |-> JNum(3),
           language |-> JNull]),
     JObj([prompt |-> JText(P_long), level |-> JNum(7)])}

BadArgs ==
    {JNull,
     JObj([goal |-> JStr("g")]),
     JObj([prompt |-> JNum(5)]),
     JObj([prompt |-> JText(P_long), goal |-> JNum(1)]),
     JObj([prompt |-> JText(P_long), level |-> JStr("3")]),
     JObj([prompt |-> JText(P_long), level |-> JNum(300)])}

ToolCallParamsSet ==
    {JNull,
     JObj([arguments |-> JObj([prompt |-> JText(P_long)])]),
     JObj([name |-> JNum(1), arguments |-> JObj([prompt |-> JText(P_long)])]),
     JObj([name |-> JStr("unknown_tool")]),
     JObj([name |-> JStr("unknown_tool"), arguments |-> JObj([prompt |-> JText(P_long)])]),
     JObj([name |-> JStr("unknown_tool"), arguments |-> JObj([prompt |-> JNum(5)])])}
    \cup {JObj([name |-> JStr("enhance_prompt"), arguments |-> a] ) : a \in GoodArgs \cup BadArgs}

Methods ==
    {"initialize", "mcp/initialize", "tools/list", "ping", "shutdown", "resources/list"}

RequestObjects ==
    {JObj([jsonrpc |-> JStr("2.0"), id |-> JNum(1), method |-> JStr(m)]) : m \in Methods}
    \cup {JObj([id |-> JNum(1), method |-> JStr("tools/call"), params |-> p]) :
            p \in ToolCallParamsSet}
    \cup {JObj([method |-> JStr("ping")]),
          JObj([id |-> JNull, method |-> JStr("shutdown")]),
          JObj([method |-> JStr("resources/list")]),
          JObj([method |-> JStr("tools/call"),
                params |-> JObj([name |-> JStr("unknown_tool")])]),
          JObj([method |-> JStr("tools/call"),
                params |-> JObj([name |-> JStr("enhance_prompt"),
                                 arguments |-> JObj([prompt |-> JNum(5)])])]),
          JObj([method |-> JStr("tools/call"),
                params |-> JObj([name |-> JStr("enhance_prompt"),
                                 arguments |-> JObj([prompt |-> JText(P_short)])])])}

Unparsable ==
    {None,
     Some(JNum(5)),
     Some(JObj([id |-> JNum(1)])),
     Some(JObj([id |-> JNum(1), method |-> JNum(2)])),
     Some(JObj([jsonrpc |-> JNum(2), id |-> JNum(1), method |-> JStr("ping")]))}

Lines ==
    {[blank |-> TRUE, json |-> None]}
    \cup {[blank |-> FALSE, json |-> j] : j \in Unparsable}
    \cup {[blank |-> FALSE, json |-> Some(v)] : v \in RequestObjects}

\* what one outbound request can come to: send() fails, or a response arrives
Outcomes ==
    {[send |-> "err", success |-> FALSE, body |-> "", content |-> <<>>],
     [send |-> "ok", success |-> FALSE, body |-> "", content |-> <<>>],
     [send |-> "ok", success |-> TRUE, body |-> "unparsable", content |-> <<>>],
     [send |-> "ok", success |-> TRUE, body |-> "nochoices", content |-> <<>>]}
    \cup {[send |-> "ok", success |-> TRUE, body |-> "content", content |-> t] :
            t \in {T_good, T_short}}

\* the texts the Validation Gate and compute_confidence are applied to: lengths
\* and word counts on both sides of every threshold of validation.rs
Pad(n) == IF n = 0 THEN <<>> ELSE <<Ws(n)>>
MkText(lead, n, wlen, trail) == Pad(lead) \o Words(n, wlen) \o Pad(trail)

PlainTexts ==
    {MkText(lead, 0, 1, 0) : lead \in {0, 3, MinLen + 2, MaxLen + 1}}
    \cup {MkText(lead, 1, wlen, 0) :
            lead \in {0, 2},
            wlen \in {MinLen - 3, MinLen - 1, MinLen, MaxLen - 2, MaxLen, MaxLen + 1}}
    \cup {MkText(0, 1, 2 * MinWords - 1, 0)}
    \cup {MkText(0, n, 1, trail) : n \in {MinWords - 1, MinWords}, trail \in {0, 1}}
    \cup {MkText(0, MinWords, 1, MaxLen - 2 * MinWords + d) : d \in {0, 1, 2}}
    \cup {MkText(0, n, 19, trail) : n \in {WordCap - 1, WordCap, WordCap + 1},
                                    trail \in {0, 1, 21}}

BadTexts ==
    {<<Bad("offensive")>>,
     <<Bad("inappropriate")>>,
     <<Bad("offensive"), Ws(MaxLen)>>,
     Words(9, 1) \o <<Ws(1), Bad("offensive")>>,
     Words(8, 1) \o <<Ws(1), W(2), Bad("offensive")>>,
     Words(9, 1) \o <<Ws(1), W(2), Bad("offensive"), W(3)>>,
     Words(9, 1) \o <<Ws(1), Bad("offensive"), Ws(1), Bad("inappropriate")>>,
     Words(9, 1) \o <<Ws(1), BadCased("offensive")>>,
     Words(9, 1) \o <<Ws(1), BadCased("inappropriate")>>,
     Words(8, 1) \o <<Ws(1), BadCased("offensive"), Ws(1), BadCased("inappropriate")>>}

Texts == PlainTexts \cup BadTexts

\* the raw records fed to process_thought
MaxCalls == 3

RawThought(number, total, more) ==
    [thought |-> JText(T_short), thoughtNumber |-> number, totalThoughts |-> total,
     nextThoughtNeeded |-> JBool(more)]

ThoughtInputs ==
    {JObj(RawThought(JNum(n), JNum(t), TRUE)) : n \in {1, 2, 5}, t \in {1, 3}}
    \cup {JObj(RawThought(JNum(4), JNum(4), FALSE)),
          JObj(RawThought(JBig(1, 2), JNum(3), TRUE)),
          JObj(RawThought(JNum(1), JBig(1, 0), TRUE)),
          JObj(RawThought(JNum(2), JNum(3), TRUE)
                 @@ [branchFromThought |-> JNum(1), branchId |-> JStr("a")]),
          JObj(RawThought(JNum(3), JNum(3), TRUE)
                 @@ [branchFromThought |-> JNum(2), branchId |-> JStr("b")]),
          JObj(RawThought(JNum(3), JNum(3), FALSE)
                 @@ [branchFromThought |-> JNum(2), branchId |-> JStr("a")]),
          JObj(RawThought(JNum(3), JNum(3), TRUE) @@ [branchId |-> JStr("a")]),
          JObj(RawThought(JNum(3), JNum(3), TRUE) @@ [branchFromThought |-> JNum(1)]),
          JObj(RawThought(JNum(2), JNum(3), TRUE)
                 @@ [isRevision |-> JBool(TRUE), revisesThought |-> JNum(1)])}
    \cup {JNull,
          JObj([thought |-> JNum(1), thoughtNumber |-> JStr("2"),
                totalThoughts |-> JNum(3)]),
          JObj([thought |-> JText(T_short), totalThoughts |-> JNum(3),
                nextThoughtNeeded |-> JBool(TRUE)]),
          JObj(RawThought(JNum(-1), JNum(3), TRUE)),
          JObj(RawThought(JStr("2"), JNum(3), TRUE)),
          JObj([thought |-> JText(T_short), thoughtNumber |-> JNum(1),
                totalThoughts |-> JNum(3), nextThoughtNeeded |-> JStr("no")])}

\* values of ENABLE_SEQUENTIAL_THINKING: the recognised words, near misses
\* and others, in lower case, upper case and capitalised, bare or with a
\* space before or after
EnvWords ==
    {<<"t", "r", "u", "e">>, <<"1">>, <<"y", "e", "s">>, <<"o", "n">>,
     <<"f", "a", "l", "s", "e">>, <<"0">>, <<"n", "o">>, <<"o", "f", "f">>,
     <<"m", "a", "y", "b", "e">>, <<>>, <<"2">>, <<"0", "0">>, <<"o", "f">>,
     <<"n">>, <<"f">>, <<"n", "o", "n", "e">>, <<"f", "a", "l", "s">>,
     <<"d", "i", "s", "a", "b", "l", "e", "d">>}

Digits == {"0", "1", "2"}
Letters(cs) == {i \in 1..Len(cs) : cs[i] \notin Digits}
Casings(cs) ==
    {Chars(cs, {}), Chars(cs, Letters(cs)), Chars(cs, Letters(cs) \cap {1})}
Space == <<[ch |-> " ", up |-> FALSE]>>

EnvStrings ==
    UNION {{str, Space \o str, str \o Space} : str \in UNION {Casings(cs) : cs \in EnvWords}}

EnvValues == {None, EnvNotUnicode} \cup {EnvSet(str) : str \in EnvStrings}

(***************************************************************************)
(* State.                                                                  *)
(***************************************************************************)
VARIABLES
    v_text,           \* validation.rs: the text validate_enhanced_prompt is applied to
    v_text2,          \* validation.rs: a second text compute_confidence is applied to
    v_res,            \* what validate_enhanced_prompt returned for v_text
    v_conf,           \* what compute_confidence returned for v_text
    v_conf2,          \* what compute_confidence returned for v_text2
    s_hist,           \* a SequentialThinking session: thought_history
    s_br,             \* a SequentialThinking session: branches
    s_fed,            \* the inputs of the process_thought calls made on the session
    s_rets,           \* what each of these calls returned
    s_lines,          \* the lines these calls printed to stderr
    pc,               \* where run_stdio_server is: "read", "send", "sleep", "write", "done"
    exit,             \* why the loop was left: "", "eof", "read_error", "write_error", "shutdown"
    lineNo,           \* number of lines read so far
    nonblank,         \* the numbers of the non-blank lines read so far, in order
    out,              \* stdout: per response line written, Written(line, response)
    req,              \* the request parsed from the current line (None: blank or unparsable)
    resp,             \* the response built for the current line
    env_thinking,     \* ENABLE_SEQUENTIAL_THINKING in the environment of the process
    default_enabled,  \* config.sequential_thinking.default_enabled
    headers_ok,       \* whether api_key, referer and title are valid header values
    prompt,           \* execute(): its arguments
    options,
    enhanced,         \* execute(): the local `enhanced`
    iter,             \* execute(): 0 in the first provider call, else the loop's i
    res,              \* handle_request: `res`, what execute() returned
    thought_history,  \* the request's SequentialThinking
    branches,
    gw_prompt,        \* enhance(): its arguments
    gw_options,
    attempts,         \* enhance(): the local `attempts`
    gw_log,           \* enhance(): the sends and sleeps of the call in flight
    last_call,        \* the last provider call that returned, for this line
    calls,            \* provider calls made for this line
    tries,            \* outbound requests made for this line
    degraded          \* whether a provider call for this line returned the fallback

disp_vars == <<pc, exit, lineNo, nonblank, out, req, resp>>
cfg_vars == <<env_thinking, default_enabled, headers_ok>>
exec_vars == <<prompt, options, enhanced, iter, res, thought_history, branches>>
gw_vars == <<gw_prompt, gw_options, attempts, gw_log>>
hist_vars == <<last_call, calls, tries, degraded>>
server_vars == <<disp_vars, cfg_vars, exec_vars, gw_vars, hist_vars>>
valid_vars == <<v_text, v_text2, v_res, v_conf, v_conf2>>
sess_vars == <<s_hist, s_br, s_fed, s_rets, s_lines>>
vars == <<server_vars, valid_vars, sess_vars>>

\* no text under validation
ValidIdle ==
    v_text = <<>> /\ v_text2 = <<>> /\ v_res = None /\ v_conf = None /\ v_conf2 = None

\* SequentialThinking::new()
SessionNew ==
    s_hist = <<>> /\ s_br = <<>> /\ s_fed = <<>> /\ s_rets = <<>> /\ s_lines = <<>>

Init ==
    /\ ValidIdle
    /\ SessionNew
    /\ pc = "read" /\ exit = "" /\ lineNo = 0 /\ nonblank = <<>> /\ out = <<>>
    /\ req = None /\ resp = None
    /\ env_thinking \in {None, EnvSet(Lit(<<"o", "f", "f">>))}
    /\ default_enabled = get_enable_sequential_thinking_default(env_thinking)
    /\ headers_ok \in BOOLEAN
    /\ prompt = None /\ options = None /\ enhanced = None /\ iter = 0 /\ res = None
    /\ thought_history = <<>> /\ branches = <<>>
    /\ gw_prompt = None /\ gw_options = None /\ attempts = 0 /\ gw_log = <<>>
    /\ last_call = None /\ calls = 0 /\ tries = 0 /\ degraded = FALSE

(***************************************************************************)
(* Steps.                                                                  *)
(***************************************************************************)
HeaderError == LLMError("RequestFailed", "header")

\* enhance() before its retry loop: the error it returns when a header value
\* cannot be built (HeaderValue::from_str(..).map_err(..)?), else None
EnhanceEntry(ok) == IF ok THEN None ELSE Some(Err(HeaderError))

CallRecord(p, o, n, log, r) ==
    [prompt |-> p, options |-> o, attempts |-> n, log |-> log, result |-> r]

\* x0 with the provider call it asks for entered: when enhance() returns before
\* its retry loop, execute() goes on with that error
Entered(x0, opts) ==
    IF IsSome(x0.call) /\ IsSome(EnhanceEntry(headers_ok))
    THEN AfterEnhance(Unwrap(EnhanceEntry(headers_ok)), x0.iter, x0.hist, x0.br, opts,
                      default_enabled)
    ELSE x0

EntryRecord(x0, lc) ==
    IF IsSome(x0.call) /\ IsSome(EnhanceEntry(headers_ok))
    THEN Some(CallRecord(Unwrap(x0.call).prompt, Unwrap(x0.call).options, 0, <<>>,
                         Unwrap(EnhanceEntry(headers_ok))))
    ELSE lc

\* Resume with the attempt counter carried over to the next provider call
ResumeKeepsAttempts(x, id) ==
    /\ enhanced' = x.enhanced
    /\ iter' = x.iter
    /\ thought_history' = x.hist
    /\ branches' = x.br
    /\ attempts' = attempts
    /\ gw_log' = <<>>
    /\ res' = x.ret
    /\ IF IsSome(x.ret)
       THEN /\ resp' = Some(ToolCallResponse(id, Unwrap(x.ret)))
            /\ pc' = "write"
            /\ gw_prompt' = None
            /\ gw_options' = None
       ELSE /\ resp' = None
            /\ pc' = "send"
            /\ gw_prompt' = Some(Unwrap(x.call).prompt)
            /\ gw_options' = Some(Unwrap(x.call).options)

\* into the retry loop of the provider call x asks for, or to the response of
\* handle_request when execute() returns
Resume(x, id) ==
    /\ enhanced' = x.enhanced
    /\ iter' = x.iter
    /\ thought_history' = x.hist
    /\ branches' = x.br
    /\ attempts' = 0
    /\ gw_log' = <<>>
    /\ res' = x.ret
    /\ IF IsSome(x.ret)
       THEN /\ resp' = Some(ToolCallResponse(id, Unwrap(x.ret)))
            /\ pc' = "write"
            /\ gw_prompt' = None
            /\ gw_options' = None
       ELSE /\ resp' = None
            /\ pc' = "send"
            /\ gw_prompt' = Some(Unwrap(x.call).prompt)
            /\ gw_options' = Some(Unwrap(x.call).options)

\* execute() goes on from x0 (lc: the provider call that has just returned, nc:
\* the provider calls made before)
Proceed(x0, id, opts, lc, nc) ==
    /\ calls' = nc + (IF IsSome(x0.call) THEN 1 ELSE 0)
    /\ last_call' = EntryRecord(x0, lc)
    /\ Resume(Entered(x0, opts), id)

NoExecute ==
    /\ prompt' = None /\ options' = None /\ enhanced' = None /\ iter' = 0
    /\ res' = None
    /\ thought_history' = <<>> /\ branches' = <<>>
    /\ gw_prompt' = None /\ gw_options' = None /\ attempts' = 0 /\ gw_log' = <<>>
    /\ last_call' = None /\ calls' = 0

\* the Ok(req) arm: handle_request(&usecase, req) up to its first await
Dispatch(r, h) ==
    /\ req' = Some(r)
    /\ IF IsSome(h.resp)
       THEN /\ resp' = h.resp
            /\ pc' = "write"
            /\ NoExecute
       ELSE /\ prompt' = Some(Unwrap(h.exec).prompt)
            /\ options' = Some(Unwrap(h.exec).options)
            /\ Proceed(Calls(Unwrap(h.exec).prompt, Unwrap(h.exec).options, None, 0,
                             <<>>, <<>>),
                       r.id, Unwrap(h.exec).options, None, 0)

\* ParseErrorResponse with the code of "invalid request"
ParseErrorResponseWrongCode == RpcError(None, -32600, "parse error")

\* the response of the Err(e) arm of serde_json::from_str
ParseErrorResponse == RpcError(None, PARSE_ERROR, "parse error")

\* Parsed with the loop left on a line that does not parse
ParsedOrStop(parsed) ==
    IF ~parsed.ok
    THEN /\ req' = None
         /\ resp' = None
         /\ pc' = "done"
         /\ NoExecute
    ELSE Dispatch(parsed.val, handle_request(parsed.val))

Parsed(parsed) ==
    IF ~parsed.ok
    THEN /\ req' = None
         /\ resp' = Some(ParseErrorResponse)
         /\ pc' = "write"
         /\ NoExecute
    ELSE Dispatch(parsed.val, handle_request(parsed.val))

\* SkipLine with the blank-line test left out
SkipLineNever(l) == FALSE

\* `if line.trim().is_empty() { continue; }`
SkipLine(l) == l.blank

\* reader.next_line() gives Ok(Some(line)): the body of the loop up to its
\* first await (a provider call, or the write of the response)
ReadLine(l) ==
    /\ pc = "read"
    /\ lineNo < MaxLines
    /\ lineNo' = lineNo + 1
    /\ tries' = 0
    /\ degraded' = FALSE
    /\ UNCHANGED <<exit, out, cfg_vars, valid_vars, sess_vars>>
    /\ nonblank' = IF l.blank THEN nonblank ELSE Append(nonblank, lineNo + 1)
    /\ IF SkipLine(l)
       THEN /\ pc' = "read" /\ req' = None /\ resp' = None
            /\ NoExecute
       ELSE Parsed(ParseRequest(l))

\* Return with the error of a call of the loop dropped and the current value
\* of `enhanced` returned
ReturnKeepsValidated(r, n, ev, o) ==
    Proceed(IF ~r.ok /\ iter >= 1
            THEN Returns(Ok(Unwrap(enhanced)), enhanced, iter, thought_history, branches)
            ELSE AfterEnhance(r, iter, thought_history, branches, Unwrap(options),
                              default_enabled),
            Unwrap(req).id, Unwrap(options),
            Some(CallRecord(Unwrap(gw_prompt), Unwrap(gw_options), n,
                            Append(gw_log, [ev |-> ev, n |-> n, o |-> Some(o)]), r)),
            calls)

\* the provider call in flight returns r at attempt count n
Return(r, n, ev, o) ==
    Proceed(AfterEnhance(r, iter, thought_history, branches, Unwrap(options),
                         default_enabled),
            Unwrap(req).id, Unwrap(options),
            Some(CallRecord(Unwrap(gw_prompt), Unwrap(gw_options), n,
                            Append(gw_log, [ev |-> ev, n |-> n, o |-> Some(o)]), r)),
            calls)

\* one pass of the retry loop: `attempts += 1`, the request, and what follows it
\* up to the next await
Attempt(o) ==
    /\ pc = "send"
    /\ tries' = tries + 1
    /\ UNCHANGED <<exit, lineNo, nonblank, out, req, cfg_vars, valid_vars, sess_vars,
                   prompt, options>>
    /\ IF IsTransportError(o)
       THEN IF RetryAfter(attempts + 1)
            THEN /\ attempts' = attempts + 1
                 /\ gw_log' = Append(gw_log, [ev |-> "send_err", n |-> attempts + 1, o |-> Some(o)])
                 /\ pc' = "sleep"
                 /\ UNCHANGED <<resp, enhanced, iter, res, thought_history, branches,
                                gw_prompt, gw_options, last_call, calls, degraded>>
            ELSE /\ degraded' = TRUE
                 /\ Return(Ok(Fallback(Unwrap(gw_prompt))), attempts + 1, "send_err", o)
       ELSE /\ UNCHANGED degraded
            /\ Return(ReadResponse(o), attempts + 1, "response", o)

\* Sleep with the read loop released while the delay runs
SleepReleasesLoop ==
    /\ pc = "sleep"
    /\ gw_log' = Append(gw_log, [ev |-> "sleep", n |-> BackoffDelay(attempts), o |-> None])
    /\ pc' = "read"
    /\ UNCHANGED <<exit, lineNo, nonblank, out, req, resp, cfg_vars, valid_vars, sess_vars,
                   exec_vars, gw_prompt, gw_options, attempts, hist_vars>>

\* Sleep with a delay that never ends
SleepHangs == pc = "sleep" /\ UNCHANGED vars

\* sleep(Duration::from_millis(500 * 2u64.pow(attempts - 1)))
Sleep ==
    /\ pc = "sleep"
    /\ gw_log' = Append(gw_log, [ev |-> "sleep", n |-> BackoffDelay(attempts), o |-> None])
    /\ pc' = "send"
    /\ UNCHANGED <<exit, lineNo, nonblank, out, req, resp, cfg_vars, valid_vars, sess_vars,
                   exec_vars, gw_prompt, gw_options, attempts, hist_vars>>

\* a response line on stdout, as the line it answers, its id and its sort
Written(line, r) ==
    [line |-> line,
     id |-> r.id,
     sort |-> IF IsSome(r.error) /\ Unwrap(r.error).code = PARSE_ERROR THEN "parse error"
              ELSE IF IsSome(r.result) /\ Unwrap(r.result).kind = "ok" THEN "shutdown ack"
              ELSE "other"]

\* the end of one pass of the loop body: its locals are dropped
EndOfPass ==
    /\ req' = None /\ resp' = None
    /\ tries' = 0 /\ degraded' = FALSE
    /\ NoExecute

\* the three stdout awaits (write_all, write_all, flush) succeed
WriteResponse ==
    /\ pc = "write"
    /\ out' = Append(out, Written(lineNo, Unwrap(resp)))
    /\ IF shutting_down /\ IsSome(req)
       THEN pc' = "done" /\ exit' = "shutdown"
       ELSE pc' = "read" /\ UNCHANGED exit
    /\ EndOfPass
    /\ UNCHANGED <<lineNo, nonblank, cfg_vars, valid_vars, sess_vars>>

\* a stdout write fails: `?` returns the error from run_stdio_server
WriteFails ==
    /\ pc = "write"
    /\ pc' = "done"
    /\ exit' = "write_error"
    /\ EndOfPass
    /\ UNCHANGED <<lineNo, nonblank, out, cfg_vars, valid_vars, sess_vars>>

\* reader.next_line() gives Ok(None)
EndOfInput ==
    /\ pc = "read"
    /\ pc' = "done"
    /\ exit' = "eof"
    /\ UNCHANGED <<lineNo, nonblank, out, req, resp, cfg_vars, valid_vars, sess_vars,
                   exec_vars, gw_vars, hist_vars>>

\* reader.next_line() gives Err(e)
ReadError ==
    /\ pc = "read"
    /\ pc' = "done"
    /\ exit' = "read_error"
    /\ UNCHANGED <<lineNo, nonblank, out, req, resp, cfg_vars, valid_vars, sess_vars,
                   exec_vars, gw_vars, hist_vars>>

Next ==
    \/ \E l \in Lines : ReadLine(l)
    \/ \E o \in Outcomes : Attempt(o)
    \/ Sleep
    \/ WriteResponse
    \/ WriteFails
    \/ EndOfInput
    \/ ReadError

Spec == Init /\ [][Next]_vars

\* every outbound request comes to an end (a response or a transport failure),
\* so does every backoff delay, and every write to stdout finishes (done or
\* failed)
SpecFair ==
    /\ Spec
    /\ WF_vars(\E o \in Outcomes : Attempt(o))
    /\ WF_vars(Sleep)
    /\ WF_vars(WriteResponse \/ WriteFails)

(***************************************************************************)
(* domain/validation.rs applied to texts.                                  *)
(***************************************************************************)
\* the server before its first line, with one configuration
ServerIdle ==
    /\ pc = "read" /\ exit = "" /\ lineNo = 0 /\ nonblank = <<>> /\ out = <<>>
    /\ req = None /\ resp = None
    /\ env_thinking = None
    /\ default_enabled = TRUE
    /\ headers_ok = TRUE
    /\ prompt = None /\ options = None /\ enhanced = None /\ iter = 0 /\ res = None
    /\ thought_history = <<>> /\ branches = <<>>
    /\ gw_prompt = None /\ gw_options = None /\ attempts = 0 /\ gw_log = <<>>
    /\ last_call = None /\ calls = 0 /\ tries = 0 /\ degraded = FALSE

InitValidation ==
    /\ ServerIdle
    /\ SessionNew
    /\ v_text \in Texts
    /\ v_text2 \in Texts
    /\ v_res = None /\ v_conf = None /\ v_conf2 = None

\* validate_enhanced_prompt(&enhanced)
Validate ==
    /\ v_res = None
    /\ v_res' = Some(validate_enhanced_prompt(EnhancedPrompt(v_text, None, None)))
    /\ UNCHANGED <<v_text, v_text2, v_conf, v_conf2, server_vars, sess_vars>>

\* compute_confidence(&enhanced), for each of the two texts
Confidence ==
    /\ v_conf = None
    /\ v_conf' = Some(compute_confidence(EnhancedPrompt(v_text, None, None)))
    /\ v_conf2' = Some(compute_confidence(EnhancedPrompt(v_text2, None, None)))
    /\ UNCHANGED <<v_text, v_text2, v_res, server_vars, sess_vars>>

NextValidation == Validate \/ Confidence

SpecValidation == InitValidation /\ [][NextValidation]_vars

(***************************************************************************)
(* domain/sequential_thinking.rs: process_thought calls on one session.    *)
(***************************************************************************)
InitThinking == ServerIdle /\ ValidIdle /\ SessionNew

\* what a process_thought call gave its caller
Returned(r) == IF r.ok THEN Ok(r.val) ELSE Err(r.err)

\* the session after process_thought(input) came to r
Fed(input, r) ==
    /\ s_hist' = r.hist
    /\ s_br' = r.br
    /\ s_fed' = Append(s_fed, input)
    /\ s_rets' = Append(s_rets, Returned(r))
    /\ s_lines' = IF r.ok THEN Append(s_lines, r.line) ELSE s_lines

\* sequential_thinker.process_thought(input)
ProcessThought(input) ==
    /\ Len(s_fed) < MaxCalls
    /\ Fed(input, process_thought(s_hist, s_br, input))
    /\ UNCHANGED <<server_vars, valid_vars>>

NextThinking == \E input \in ThoughtInputs : ProcessThought(input)

SpecThinking == InitThinking /\ [][NextThinking]_vars

(***************************************************************************)
(* usecases/enhance_prompt.rs: execute() with options that carry the       *)
(* thinking fields, as the tests of enhance_prompt.rs build them.          *)
(***************************************************************************)
MaxThoughts == 2

\* options.thought_count: absent, or a u32
ThoughtCounts == {None} \cup {Some(n) : n \in 0..MaxThoughts}

ExecOptions ==
    {EnhancementOptions(None, None, None, None, None, None, est, tc) :
        est \in {None, Some(TRUE), Some(FALSE)}, tc \in ThoughtCounts}

ExecPrompts == {P_short, P_long}

\* the request on whose behalf execute() is called
ExecCaller == [id |-> Some(JNum(1)), method |-> "tools/call", params |-> JNull]

\* usecase.execute(Prompt { text: p }, o) up to its first await
CallExecute(p, o) ==
    /\ pc = "read"
    /\ lineNo < MaxLines
    /\ lineNo' = lineNo + 1
    /\ nonblank' = Append(nonblank, lineNo + 1)
    /\ tries' = 0
    /\ degraded' = FALSE
    /\ req' = Some(ExecCaller)
    /\ prompt' = Some(Prompt(p))
    /\ options' = Some(o)
    /\ Proceed(Calls(Prompt(p), o, None, 0, <<>>, <<>>), ExecCaller.id, o, None, 0)
    /\ UNCHANGED <<exit, out, cfg_vars, valid_vars, sess_vars>>

NextExecute ==
    \/ \E p \in ExecPrompts, o \in ExecOptions : CallExecute(p, o)
    \/ \E o \in Outcomes : Attempt(o)
    \/ Sleep
    \/ WriteResponse

SpecExecute == Init /\ [][NextExecute]_vars

\* every outbound request comes to an end (a response or a transport failure)
\* and so does every backoff delay
SpecExecuteFair ==
    /\ SpecExecute
    /\ WF_vars(\E o \in Outcomes : Attempt(o))
    /\ WF_vars(Sleep)

(***************************************************************************)
(* infrastructure/config.rs: the configuration loaded from environments.   *)
(***************************************************************************)
\* Config::from_env() in an environment whose ENABLE_SEQUENTIAL_THINKING is e
FromEnv(e) ==
    /\ env_thinking' = e
    /\ default_enabled' = get_enable_sequential_thinking_default(e)
    /\ UNCHANGED <<disp_vars, headers_ok, exec_vars, gw_vars, hist_vars, valid_vars,
                   sess_vars>>

NextConfig == \E e \in EnvValues : FromEnv(e)

\* the variable is not set (clear_env() of the tests) and no request is read
InitConfig == ServerIdle /\ ValidIdle /\ SessionNew

SpecConfig == InitConfig /\ [][NextConfig]_vars

(***************************************************************************)
(* Properties.                                                             *)
(*                                                                         *)
(* A response is looked at when it has been built and is about to be       *)
(* written (pc = "write"); a provider call when it has returned            *)
(* (last_call) or while it is in flight (gw_log).                          *)
(***************************************************************************)
Last(q) == q[Len(q)]
TheResp == Unwrap(resp)
TheReq == Unwrap(req)
TheCall == Unwrap(last_call)

\* the outbound requests of a log, and its delays, in order
Sends(log) == SelectSeq(log, LAMBDA e : IsSome(e.o))
Delays(log) == [j \in 1..Len(SelectSeq(log, LAMBDA e : IsNone(e.o))) |->
                    SelectSeq(log, LAMBDA e : IsNone(e.o))[j].n]
Failed(e) == IsSome(e.o) /\ Unwrap(e.o).send = "err"
Responded(e) == IsSome(e.o) /\ Unwrap(e.o).send = "ok"

IsContent(r) == IsSome(r.result) /\ Unwrap(r.result).kind = "content"
HasCode(r, code) == IsSome(r.error) /\ Unwrap(r.error).code = code /\ r.result = None

\* C1: when execute() has returned for a tools/call, the response is a result
\* and never a JSON-RPC error: a failure gives the content envelope with
\* isError = true and the error message as text, a success the content envelope
\* with the returned text and no isError.
C1_ToolFailureIsResult ==
    IsSome(res) =>
        /\ pc = "write"
        /\ TheResp.error = None
        /\ IsContent(TheResp)
        /\ LET c == Unwrap(TheResp.result) IN
           IF Unwrap(res).ok
           THEN /\ c.isError = None
                /\ c.text = [lit |-> "", txt |-> Unwrap(res).val.text, err |-> None]
           ELSE /\ c.isError = Some(TRUE)
                /\ c.text = [lit |-> "tool error: ", txt |-> <<>>, err |-> Some(Unwrap(res).err)]

\* execute() has failed with the validation error TooShort and the response is built
C1_Witness ==
    /\ pc = "write"
    /\ IsSome(res)
    /\ ~Unwrap(res).ok
    /\ Unwrap(res).err = VErr("TooShort", "")
    /\ Unwrap(TheResp.result).isError = Some(TRUE)

\* C2 (as claimed): a tool call whose one provider call failed at transport level
\* on all 3 attempts is answered with the fallback text in a content envelope
\* without isError, for every prompt.
C2_FallbackIsAnswer ==
    (pc = "write" /\ IsSome(res) /\ degraded /\ calls = 1) =>
        /\ TheResp.error = None
        /\ IsContent(TheResp)
        /\ Unwrap(TheResp.result).isError = None
        /\ Unwrap(TheResp.result).text.txt = FallbackText(Unwrap(prompt).text)

\* C3 (as claimed): every provider call that has returned made at least 1 and at
\* most 3 outbound requests.
C3_AtLeastOneAttempt ==
    IsSome(last_call) =>
        /\ Len(Sends(TheCall.log)) >= 1
        /\ Len(Sends(TheCall.log)) <= 3

\* C3 (amended): a provider call never makes more than 3 outbound requests; it
\* makes at least 1 unless a header value cannot be built, and then it returns
\* RequestFailed with no request made.
C3_AttemptsBounded ==
    /\ Len(Sends(gw_log)) <= 3
    /\ attempts = Len(Sends(gw_log))
    /\ IsSome(last_call) =>
        /\ Len(Sends(TheCall.log)) <= 3
        /\ TheCall.attempts = Len(Sends(TheCall.log))
        /\ \/ Len(Sends(TheCall.log)) >= 1
           \/ ~headers_ok /\ TheCall.result = Err(LLMError("RequestFailed", "header"))

\* a provider call that made 3 outbound requests has returned
C3_Witness == IsSome(last_call) /\ Len(Sends(TheCall.log)) = 3

\* the events of a provider call: a delay stands only after a failed request k and
\* before request k+1, and is 500ms for k = 1 and 1000ms for k = 2
BackoffShape(log) ==
    \A j \in 1..Len(log) :
        /\ IsNone(log[j].o) =>
              /\ j > 1
              /\ Failed(log[j - 1])
              /\ log[j].n = (IF log[j - 1].n = 1 THEN 500
                             ELSE IF log[j - 1].n = 2 THEN 1000 ELSE -1)
              /\ j < Len(log) => IsSome(log[j + 1].o) /\ log[j + 1].n = log[j - 1].n + 1
        /\ IsSome(log[j].o) =>
              /\ j = 1 => log[j].n = 1
              /\ j > 1 => IsNone(log[j - 1].o)
              /\ j < Len(log) => Failed(log[j]) /\ IsNone(log[j + 1].o)

\* C4: in a provider call a backoff delay stands after the k-th transport failure
\* and before attempt k+1 only, and is 500ms * 2^(k-1); when attempts 1 and 2 fail
\* and attempt 3 gets a successful response, the call returns that response's text
\* and exactly the delays 500ms, 1000ms were slept, in that order.
C4_Backoff ==
    /\ BackoffShape(gw_log)
    /\ pc = "sleep" => gw_log # <<>> /\ Failed(Last(gw_log))
    /\ IsSome(last_call) =>
        /\ BackoffShape(TheCall.log)
        /\ TheCall.log # <<>> => IsSome(Last(TheCall.log).o)
        /\ ( /\ Len(Sends(TheCall.log)) = 3
             /\ Responded(Last(TheCall.log))
             /\ Unwrap(Last(TheCall.log).o).success
             /\ Unwrap(Last(TheCall.log).o).body = "content" )
           => /\ Delays(TheCall.log) = <<500, 1000>>
              /\ TheCall.result =
                    Ok(EnhancedPrompt(Trim(Unwrap(Last(TheCall.log).o).content), None, None))

\* attempts 1 and 2 failed, attempt 3 got a successful response with a text
C4_Witness ==
    /\ IsSome(last_call)
    /\ Len(TheCall.log) = 5
    /\ Failed(TheCall.log[1]) /\ Failed(TheCall.log[3])
    /\ Responded(TheCall.log[5])
    /\ TheCall.result.ok

\* C5: a provider call whose 3 requests all failed at transport level returns
\* Ok: the prompt echoed under "Enhanced: ", confidence exactly 0.3 and the
\* fallback rationale; no delay follows the third failure.
C5_Fallback ==
    (IsSome(last_call) /\ TheCall.log # <<>> /\ Failed(Last(TheCall.log))) =>
        /\ Len(Sends(TheCall.log)) = 3
        /\ Delays(TheCall.log) = <<500, 1000>>
        /\ Len(TheCall.log) = 5
        /\ TheCall.result.ok
        /\ TheCall.result.val.text = <<W(9), Ws(1)>> \o TheCall.prompt.text
        /\ TheCall.result.val.confidence = Some(Frac(3, 10))
        /\ TheCall.result.val.rationale = Some("Fallback due to API failure after retries")

\* a provider call has returned after three transport failures
C5_Witness ==
    /\ IsSome(last_call)
    /\ Len(TheCall.log) = 5
    /\ \A j \in {1, 3, 5} : Failed(TheCall.log[j])

\* C6: a provider call makes no request after one that got an HTTP response: a
\* non-success status returns RequestFailed, a success response with an
\* unparsable body or no choices returns UnexpectedResponse, whatever the number
\* of transport failures before it.
C6_ResponseEndsCall ==
    /\ \A j \in 1..Len(gw_log) : ~Responded(gw_log[j])
    /\ IsSome(last_call) =>
         \A j \in 1..Len(TheCall.log) :
            Responded(TheCall.log[j]) =>
               /\ j = Len(TheCall.log)
               /\ ~Unwrap(TheCall.log[j].o).success =>
                     /\ ~TheCall.result.ok
                     /\ TheCall.result.err.name = "RequestFailed"
               /\ ( /\ Unwrap(TheCall.log[j].o).success
                    /\ Unwrap(TheCall.log[j].o).body \in {"unparsable", "nochoices"} ) =>
                     /\ ~TheCall.result.ok
                     /\ TheCall.result.err.name = "UnexpectedResponse"

\* two transport failures, then a response with a non-success status
C6_Witness ==
    /\ IsSome(last_call)
    /\ Len(TheCall.log) = 5
    /\ Responded(TheCall.log[5])
    /\ ~Unwrap(TheCall.log[5].o).success
    /\ ~TheCall.result.ok

\* C7: the response built for a non-blank line that does not parse as a request
\* has error code -32700, no id and no result; once it is written the loop is
\* reading again (it ends only by end of input or a read error).
C7_ParseError ==
    /\ (pc = "write" /\ IsNone(req)) =>
          /\ TheResp.id = None
          /\ TheResp.result = None
          /\ IsSome(TheResp.error)
          /\ Unwrap(TheResp.error).code = -32700
    /\ (out # <<>> /\ Last(out).sort = "parse error" /\ Last(out).line = lineNo) =>
          /\ Last(out).id = None
          /\ pc = "read" \/ (pc = "done" /\ exit \in {"eof", "read_error"})

\* a line read after an unparsable line has been answered
C7_Witness ==
    \E j \in 1..Len(out) : out[j].sort = "parse error" /\ j < Len(out)

KnownMethods ==
    {"initialize", "mcp/initialize", "tools/list", "tools/call", "ping", "shutdown"}

\* C8: a request with a method outside the six known ones is answered with error
\* -32601 and no result; so is a tools/call whose params.name is a string other
\* than enhance_prompt, whatever its arguments are; execute() is not called.
C8_UnknownMethodOrTool ==
    (pc = "write" /\ IsSome(req)) =>
        /\ TheReq.method \notin KnownMethods =>
              HasCode(TheResp, -32601) /\ IsNone(prompt)
        /\ ( /\ TheReq.method = "tools/call"
             /\ Has(TheReq.params, "name")
             /\ IsString(TheReq.params.o.name)
             /\ AsStr(TheReq.params.o.name) # "enhance_prompt" ) =>
              HasCode(TheResp, -32601) /\ IsNone(prompt)

\* an unknown tool is called with arguments that would not parse
C8_Witness ==
    /\ pc = "write"
    /\ IsSome(req)
    /\ TheReq.method = "tools/call"
    /\ Has(TheReq.params, "name")
    /\ TheReq.params.o.name = JStr("unknown_tool")
    /\ Has(TheReq.params, "arguments")
    /\ TheReq.params.o.arguments = JObj([prompt |-> JNum(5)])
    /\ HasCode(TheResp, -32601)

\* arguments that do not have the typed fields of EnhanceArgs
MalformedArgs(a) ==
    \/ a.t # "obj"
    \/ ~Has(a, "prompt")
    \/ Has(a, "prompt") /\ a.o.prompt.t \notin {"str", "text"}
    \/ \E f \in {"goal", "style", "tone", "audience", "language"} :
          Has(a, f) /\ a.o[f].t \notin {"null", "str", "text"}
    \/ Has(a, "level") /\ a.o.level.t # "null"
          /\ (a.o.level.t # "num" \/ a.o.level.hi # 0 \/ a.o.level.n \notin 0..255)

\* C9: a tools/call whose params are no object with a string name, or whose name
\* is enhance_prompt and whose arguments do not have the typed fields, is
\* answered with error -32602 and no result, and execute() is not called.
C9_InvalidParams ==
    (pc = "write" /\ IsSome(req) /\ TheReq.method = "tools/call") =>
        LET p == TheReq.params IN
        ( \/ p.t # "obj"
          \/ ~Has(p, "name")
          \/ Has(p, "name") /\ ~IsString(p.o.name)
          \/ /\ Has(p, "name") /\ p.o.name = JStr("enhance_prompt")
             /\ MalformedArgs(IF Has(p, "arguments") THEN p.o.arguments ELSE JNull) )
        => /\ HasCode(TheResp, -32602)
           /\ IsNone(prompt) /\ IsNone(res) /\ calls = 0 /\ tries = 0

\* enhance_prompt is called with a mistyped optional field
C9_Witness ==
    /\ pc = "write"
    /\ IsSome(req)
    /\ TheReq.method = "tools/call"
    /\ Has(TheReq.params, "arguments")
    /\ Has(TheReq.params.o.arguments, "level")
    /\ TheReq.params.o.arguments.o.level = JStr("3")
    /\ HasCode(TheResp, -32602)

OutLines == [j \in 1..Len(out) |-> out[j].line]

C11_OneRequestInFlight ==
    /\ [](pc = "read" =>
            /\ IsNone(req) /\ IsNone(resp) /\ IsNone(res) /\ IsNone(prompt)
            /\ IsNone(gw_prompt) /\ gw_log = <<>> /\ attempts = 0
            /\ calls = 0 /\ tries = 0
            /\ OutLines = nonblank)
    /\ [](pc \in {"send", "sleep"} =>
            /\ IsSome(req) /\ IsSome(gw_prompt)
            /\ nonblank # <<>> /\ Last(nonblank) = lineNo
            /\ OutLines = SubSeq(nonblank, 1, Len(nonblank) - 1))
    /\ [][ /\ lineNo' # lineNo => pc = "read" /\ lineNo' = lineNo + 1 /\ out' = out
           /\ pc \in {"send", "sleep"} => lineNo' = lineNo /\ out' = out /\ req' = req
           /\ (tries' > tries \/ calls' > calls) => (lineNo' = lineNo => pc = "send")
           /\ out' # out => /\ pc = "write" /\ lineNo' = lineNo
                            /\ out' = Append(out, Written(lineNo, TheResp)) ]_vars

\* the second line's request is in a backoff delay, the first line is answered
C11_Witness ==
    /\ pc = "sleep"
    /\ lineNo = 2
    /\ nonblank = <<1, 2>>
    /\ Len(out) = 1
    /\ Len(gw_log) = 3

\* C12: a shutdown request is answered with the fixed acknowledgement under its
\* id; the loop never ends by shutdown: once the acknowledgement is written the
\* loop is at its read point with no state left of the request, as after any
\* other response.
C12_ShutdownKeepsReading ==
    /\ (pc = "write" /\ IsSome(req) /\ TheReq.method = "shutdown") =>
          TheResp = [id |-> TheReq.id, result |-> Some([kind |-> "ok"]), error |-> None]
    /\ exit # "shutdown"
    /\ (out # <<>> /\ Last(out).sort = "shutdown ack" /\ Last(out).line = lineNo) =>
          /\ pc = "read" \/ (pc = "done" /\ exit \in {"eof", "read_error"})
          /\ IsNone(req) /\ IsNone(resp)

\* a line read after a shutdown request has been answered
C12_Witness ==
    \E j \in 1..Len(out) : out[j].sort = "shutdown ack" /\ j < Len(out)

\* C13 (as claimed): the loop is left only by end of input or by a read error.
C13_ExitOnlyEofOrReadError ==
    pc = "done" => exit \in {"eof", "read_error"}

\* C13 (amended): the loop is left only by end of input, by a read error, or by
\* a failing write of a response to stdout; no request, protocol error or tool
\* failure leaves it, and after it is left nothing more is written.
C13_LoopExit ==
    /\ [](pc = "done" <=> exit # "")
    /\ [](exit \in {"", "eof", "read_error", "write_error"})
    /\ [][ /\ pc = "done" => out' = out
           /\ (pc # "done" /\ pc' = "done") =>
                /\ out' = out
                /\ exit' \in {"eof", "read_error"} => pc = "read"
                /\ exit' = "write_error" => pc = "write" ]_vars

\* the loop was left by a read error after two lines had been answered, the first
\* of them with a parse error
C13_Witness ==
    /\ pc = "done"
    /\ exit = "read_error"
    /\ Len(out) = 2
    /\ out[1].sort = "parse error"

(***************************************************************************)
(* Properties of the Validation Gate (SpecValidation).                     *)
(***************************************************************************)
TheResult == Unwrap(v_res)
Returns_(name) == ~TheResult.ok /\ TheResult.err.name = name

\* the five checks, each by itself
Occurs(t, word) == \E j \in 1..Len(t) : t[j].k = word
FailsEmpty(t) == \A j \in 1..Len(t) : t[j].k = "ws"
FailsShort(t) == TextLen(t) < 10
FailsLong(t) == TextLen(t) > 5000
FailsSimple(t) == word_count(t) < 10
FailsDenylist(t) == Occurs(t, "inappropriate") \/ Occurs(t, "offensive")

\* the error of the first check, in the fixed order, that fails
FirstFailure(t) ==
    IF FailsEmpty(t) THEN "EmptyPrompt"
    ELSE IF FailsShort(t) THEN "TooShort"
    ELSE IF FailsLong(t) THEN "TooLong"
    ELSE IF FailsSimple(t) THEN "TooSimple"
    ELSE IF FailsDenylist(t) THEN "InappropriateContent"
    ELSE "none"

\* C14: validate returns Ok exactly when none of the five checks fails, and
\* otherwise the one error of the first failing check in the order EmptyPrompt,
\* TooShort, TooLong, TooSimple, InappropriateContent.
C14_FirstFailureWins ==
    IsSome(v_res) =>
        /\ TheResult.ok <=> ~( \/ FailsEmpty(v_text) \/ FailsShort(v_text)
                               \/ FailsLong(v_text) \/ FailsSimple(v_text)
                               \/ FailsDenylist(v_text) )
        /\ ~TheResult.ok => TheResult.err.name = FirstFailure(v_text)

\* a text that is too short, too simple and on the denylist is reported TooShort
C14_Witness ==
    /\ IsSome(v_res)
    /\ FailsShort(v_text) /\ FailsSimple(v_text) /\ FailsDenylist(v_text)
    /\ Returns_("TooShort")

\* C15 (as claimed): a text of trimmed length 0 gives EmptyPrompt, a text of 1 to
\* 9 bytes TooShort, a text of more than 5000 bytes TooLong.
C15_LengthClasses ==
    IsSome(v_res) =>
        /\ FailsEmpty(v_text) => Returns_("EmptyPrompt")
        /\ TextLen(v_text) \in 1..9 => Returns_("TooShort")
        /\ TextLen(v_text) > 5000 => Returns_("TooLong")

\* C15 (amended): a text of trimmed length 0 gives EmptyPrompt whatever its
\* length; a text that is not all whitespace gives TooShort when it has 1 to 9
\* bytes and TooLong when it has more than 5000.
C15_LengthClassesNonBlank ==
    IsSome(v_res) =>
        /\ FailsEmpty(v_text) => Returns_("EmptyPrompt")
        /\ (~FailsEmpty(v_text) /\ TextLen(v_text) \in 1..9) => Returns_("TooShort")
        /\ (~FailsEmpty(v_text) /\ TextLen(v_text) > 5000) => Returns_("TooLong")

\* three bytes of whitespace are reported EmptyPrompt
C15_Witness ==
    /\ IsSome(v_res)
    /\ v_text = <<Ws(3)>>
    /\ Returns_("EmptyPrompt")

\* C16 (as claimed): a text of fewer than 10 words and at least 10 bytes gives
\* TooSimple.
C16_FewWords ==
    (IsSome(v_res) /\ word_count(v_text) < 10 /\ TextLen(v_text) >= 10) =>
        Returns_("TooSimple")

\* C16 (amended): a text of fewer than 10 words gives TooSimple when it is not
\* all whitespace and has at least 10 and at most 5000 bytes.
C16_FewWordsInRange ==
    ( /\ IsSome(v_res)
      /\ word_count(v_text) < 10
      /\ ~FailsEmpty(v_text)
      /\ TextLen(v_text) >= 10
      /\ TextLen(v_text) <= 5000 ) =>
        Returns_("TooSimple")

\* one word of 5000 bytes is reported TooSimple
C16_Witness ==
    /\ IsSome(v_res)
    /\ v_text = <<W(5000)>>
    /\ Returns_("TooSimple")

\* C17: validate returns InappropriateContent(word) only for a text that is not
\* all whitespace, has 10 to 5000 bytes and at least 10 words and holds a
\* denylisted word in some letter case; word is "inappropriate" when that
\* occurs anywhere in the text, else "offensive".
C17_Denylist ==
    (IsSome(v_res) /\ Returns_("InappropriateContent")) =>
        /\ ~FailsEmpty(v_text)
        /\ TextLen(v_text) >= 10 /\ TextLen(v_text) <= 5000
        /\ word_count(v_text) >= 10
        /\ FailsDenylist(v_text)
        /\ TheResult.err.arg =
              (IF Occurs(v_text, "inappropriate") THEN "inappropriate" ELSE "offensive")

\* "offensive" stands before "inappropriate" in the text, both with upper-case
\* letters, and "inappropriate" is reported
C17_Witness ==
    /\ IsSome(v_res)
    /\ \E i, j \in 1..Len(v_text) :
          /\ i < j
          /\ v_text[i] = BadCased("offensive")
          /\ v_text[j] = BadCased("inappropriate")
    /\ TheResult = Err(VErr("InappropriateContent", "inappropriate"))

\* C18: compute_confidence is the average of min(len/1000, 1) and
\* min(words/50, 1), here in hundred-thousandths (len * 50 + words * 1000, each
\* capped); it lies in [0,1], does not decrease when the length grows
\* at equal word count or the word count grows at equal length, and is 1
\* exactly when the text has at least 1000 bytes and at least 50 words.
C18_Confidence ==
    IsSome(v_conf) =>
        LET c == Unwrap(v_conf)
            c2 == Unwrap(v_conf2)
            len == TextLen(v_text)
            words == word_count(v_text)
        IN  /\ c.den = 100000 /\ c2.den = 100000
            /\ c.num = (IF len < 1000 THEN len ELSE 1000) * 50
                         + (IF words < 50 THEN words ELSE 50) * 1000
            /\ 0 <= c.num /\ c.num <= c.den
            /\ (word_count(v_text2) = words /\ len <= TextLen(v_text2)) => c.num <= c2.num
            /\ (TextLen(v_text2) = len /\ words <= word_count(v_text2)) => c.num <= c2.num
            /\ c.num = c.den <=> (len >= 1000 /\ words >= 50)

\* 50 words in 1000 bytes score 1, the same 50 words in 999 bytes score less
C18_Witness ==
    /\ IsSome(v_conf)
    /\ word_count(v_text) = 50 /\ TextLen(v_text) = 1000
    /\ word_count(v_text2) = 50 /\ TextLen(v_text2) = 999
    /\ Unwrap(v_conf).num = Unwrap(v_conf).den
    /\ Unwrap(v_conf2).num < Unwrap(v_conf2).den

(***************************************************************************)
(* Properties of one thinking session (SpecThinking).                     *)
(***************************************************************************)
\* the calls among the first k that returned Ok, and their number
Accepted(k) == {j \in 1..k : s_rets[j].ok}
OkCount(k) == Cardinality(Accepted(k))

\* thoughtNumber and totalThoughts of the k-th input, as u32
InNumber(k) == s_fed[k].o.thoughtNumber.n
InTotal(k) == s_fed[k].o.totalThoughts.n

MaxOf(S) == CHOOSE m \in S : \A x \in S : x <= m

\* C19 (as claimed): the total reported for a record is the maximum of its
\* incoming total and of every thought number seen so far in the session, and
\* the reported total never goes down in a session.
C19_RunningMax ==
    \A k \in 1..Len(s_rets) :
        s_rets[k].ok =>
            /\ s_rets[k].val.totalThoughts =
                  MaxOf({InTotal(k)} \cup {InNumber(j) : j \in Accepted(k)})
            /\ \A j \in Accepted(k) :
                  s_rets[j].val.totalThoughts <= s_rets[k].val.totalThoughts

\* C19 (amended): the total reported for a record, and stored with it, is the
\* maximum of that record's own total and that record's own thought number: it
\* is raised to the number and never set below what the record came with;
\* earlier records of the session have no part in it.
C19_PerRecordMax ==
    \A k \in 1..Len(s_rets) :
        s_rets[k].ok =>
            /\ s_rets[k].val.totalThoughts = MaxOf({InTotal(k), InNumber(k)})
            /\ s_rets[k].val.thoughtNumber = InNumber(k)
            /\ s_hist[OkCount(k)].total_thoughts = s_rets[k].val.totalThoughts
            /\ s_hist[OkCount(k)].thought_number = InNumber(k)

\* thought 5 of 3 was reported as 5 of 5, then thought 2 of 3 as 2 of 3
C19_Witness ==
    /\ Len(s_rets) = 2
    /\ s_rets[1].ok /\ InNumber(1) = 5 /\ InTotal(1) = 3
    /\ s_rets[1].val.totalThoughts = 5
    /\ s_rets[2].ok /\ InNumber(2) = 2 /\ InTotal(2) = 3
    /\ s_rets[2].val.totalThoughts = 3

\* C20 (as claimed): the main sequence has one record per process_thought call
\* made on the session, and each call reports that count.
C20_CountEqualsCalls ==
    /\ Len(s_hist) = Len(s_fed)
    /\ \A k \in 1..Len(s_rets) : s_rets[k].ok => s_rets[k].val.thoughtHistoryLength = k

\* C20 (amended): the main sequence has one record per process_thought call
\* that returned Ok, in call order, and each such call reports that count; a
\* call that fails leaves the session as it was; no record is moved or removed.
C20_CountEqualsAcceptedCalls ==
    /\ [](/\ Len(s_rets) = Len(s_fed)
          /\ Len(s_hist) = OkCount(Len(s_rets))
          /\ \A k \in 1..Len(s_rets) :
                s_rets[k].ok =>
                    /\ s_rets[k].val.thoughtHistoryLength = OkCount(k)
                    /\ s_hist[OkCount(k)].thought = AsStr(s_fed[k].o.thought)
                    /\ s_hist[OkCount(k)].thought_number = InNumber(k)
                    /\ s_hist[OkCount(k)].next_thought_needed
                          = s_fed[k].o.nextThoughtNeeded.b)
    /\ [][ /\ Len(s_rets') = Len(s_rets) + 1
           /\ IF s_rets'[Len(s_rets')].ok
              THEN /\ Len(s_hist') = Len(s_hist) + 1
                   /\ SubSeq(s_hist', 1, Len(s_hist)) = s_hist
              ELSE s_hist' = s_hist /\ s_br' = s_br ]_vars

\* three calls, the second with a malformed record: two records
C20_Witness ==
    /\ Len(s_fed) = 3
    /\ s_rets[1].ok /\ ~s_rets[2].ok /\ s_rets[3].ok
    /\ Len(s_hist) = 2

\* the records of the main sequence that carry branch id B, in their order
OnBranch(B) == LET Carries(td) == td.branch_id = Some(B) IN SelectSeq(s_hist, Carries)

\* the branch ids carried by the records of the main sequence
BranchIds == {Unwrap(s_hist[i].branch_id) :
                 i \in {j \in 1..Len(s_hist) : IsSome(s_hist[j].branch_id)}}

\* C21: every record that carries branch id B is in the main sequence and in
\* the sub-sequence of branch B, and the sub-sequence of branch B is the
\* records of the main sequence carrying B, in the order they have there; the
\* mapping has no other branch.
C21_BranchSubsequence ==
    /\ DOMAIN s_br = BranchIds
    /\ \A B \in DOMAIN s_br : s_br[B] = OnBranch(B)

\* two different records of branch "a" with a plain record between them
C21_Witness ==
    /\ Len(s_hist) = 3
    /\ s_hist[1].branch_id = Some("a") /\ s_hist[1].thought_number = 2
    /\ s_hist[2].branch_id = None
    /\ s_hist[3].branch_id = Some("a") /\ s_hist[3].thought_number = 3
    /\ "a" \in DOMAIN s_br
    /\ s_br["a"] = <<s_hist[1], s_hist[3]>>

\* the message of the first check a raw record fails, None when it passes all
FirstOffence(input) ==
    IF input.t # "obj" THEN Some("Input must be a JSON object")
    ELSE IF ~Has(input, "thought") \/ ~IsString(input.o.thought)
         THEN Some("Invalid thought: must be a string")
    ELSE IF ~Has(input, "thoughtNumber") \/ ~IsU64(input.o.thoughtNumber)
         THEN Some("Invalid thoughtNumber: must be a number")
    ELSE IF ~Has(input, "totalThoughts") \/ ~IsU64(input.o.totalThoughts)
         THEN Some("Invalid totalThoughts: must be a number")
    ELSE IF ~Has(input, "nextThoughtNeeded") \/ input.o.nextThoughtNeeded.t # "bool"
         THEN Some("Invalid nextThoughtNeeded: must be a boolean")
    ELSE None

\* C22: process_thought fails exactly on a malformed record (not an object,
\* or thought, thoughtNumber, totalThoughts, nextThoughtNeeded missing or of
\* the wrong type), with the error of the first such field in that order; a
\* well-formed record is accepted whatever its numbers are, a thought number
\* above the total included; a failing call leaves the main sequence and the
\* branch mapping as they were.
C22_FailsOnlyOnMalformed ==
    /\ [](\A k \in 1..Len(s_rets) :
             IF IsSome(FirstOffence(s_fed[k]))
             THEN s_rets[k] = Err(TErr(Unwrap(FirstOffence(s_fed[k]))))
             ELSE s_rets[k].ok)
    /\ [][ ~s_rets'[Len(s_rets')].ok => s_hist' = s_hist /\ s_br' = s_br ]_vars

\* a record with two bad fields failed on the first, after thought 5 of 3 and
\* a branch record were accepted, and the session kept both
C22_Witness ==
    /\ Len(s_fed) = 3
    /\ s_rets[1].ok /\ InNumber(1) = 5 /\ InTotal(1) = 3
    /\ s_rets[2].ok /\ DOMAIN s_br = {"a"}
    /\ s_fed[3].t = "obj" /\ ~IsString(s_fed[3].o.thought)
    /\ ~IsU64(s_fed[3].o.thoughtNumber)
    /\ s_rets[3] = Err(TErr("Invalid thought: must be a string"))
    /\ Len(s_hist) = 2

(***************************************************************************)
(* Properties of execute() (SpecExecute).                                  *)
(***************************************************************************)
TheOptions == Unwrap(options)

\* the first provider call of this execute() is in flight
FirstCallInFlight == pc \in {"send", "sleep"} /\ calls = 1

\* C23: when the first provider call returns a result that the Validation
\* Gate rejects, execute() returns that validation error in the same step:
\* no thought record was processed, no second provider call is made, no
\* request beyond those of the first call, and no EnhancedPrompt is returned;
\* a validation error is never the result of a later provider call.
C23_FirstRejectionAborts ==
    /\ [][ ( /\ FirstCallInFlight
             /\ last_call' # last_call
             /\ IsSome(last_call')
             /\ Unwrap(last_call').result.ok
             /\ ~validate_enhanced_prompt(Unwrap(last_call').result.val).ok )
           => /\ pc' = "write"
              /\ res' = Some(Err(validate_enhanced_prompt(
                                    Unwrap(last_call').result.val).err))
              /\ calls' = 1
              /\ gw_prompt' = None
              /\ tries' = Unwrap(last_call').attempts
              /\ thought_history' = <<>> /\ branches' = <<>> ]_vars
    /\ []((IsSome(res) /\ ~Unwrap(res).ok /\ Unwrap(res).err.cls = "validation")
             => calls = 1 /\ thought_history = <<>>)

\* thinking was asked for with two thoughts, the first result had 9 bytes:
\* execute() returned TooShort after one provider call
C23_Witness ==
    /\ pc = "write"
    /\ IsSome(res)
    /\ Unwrap(res) = Err(VErr("TooShort", ""))
    /\ TheOptions.enable_sequential_thinking = Some(TRUE)
    /\ TheOptions.thought_count = Some(2)
    /\ TheCall.result.ok /\ TheCall.result.val.text = T_short
    /\ calls = 1 /\ thought_history = <<>>

\* execute() has returned Ok
Succeeded == pc = "write" /\ IsSome(res) /\ Unwrap(res).ok

\* whether this request asks for the refinement loop, and with how many thoughts
ThinkingOn ==
    IF IsSome(TheOptions.enable_sequential_thinking)
    THEN Unwrap(TheOptions.enable_sequential_thinking)
    ELSE default_enabled
ThoughtCount ==
    IF IsSome(TheOptions.thought_count) THEN Unwrap(TheOptions.thought_count) ELSE 3

\* C24 (as claimed): whenever execute() returns Ok, with thinking disabled or
\* enabled with any thought count, the confidence of the returned value is
\* present, is what compute_confidence gives, and is not the confidence the
\* last provider call set.
C24_ConfidenceByOrchestrator ==
    Succeeded =>
        /\ IsSome(Unwrap(res).val.confidence)
        /\ calls = 1 =>
              Unwrap(res).val.confidence = Some(compute_confidence(Unwrap(res).val))
        /\ calls > 1 => Unwrap(res).val.confidence # TheCall.result.val.confidence

\* C25: only the first provider result goes through the Validation Gate: with
\* thinking disabled or a thought count of at most 1, execute() makes one
\* provider call and every text it returns with Ok passes the Gate; with more
\* provider calls, the value returned with Ok is the last provider result as it
\* came, whether the Gate would accept it or not.
C25_OnlyFirstValidated ==
    Succeeded =>
        /\ (~ThinkingOn \/ ThoughtCount <= 1) =>
              /\ calls = 1
              /\ validate_enhanced_prompt(Unwrap(res).val).ok
        /\ calls = 1 => validate_enhanced_prompt(Unwrap(res).val).ok
        /\ calls > 1 =>
              /\ ThinkingOn /\ ThoughtCount >= 2
              /\ Unwrap(res).val = TheCall.result.val

\* thinking with two thoughts: execute() returned Ok with a text of 9 bytes,
\* which the Gate rejects
C25_Witness ==
    /\ Succeeded
    /\ ThinkingOn /\ ThoughtCount = 2
    /\ calls = 2
    /\ Unwrap(res).val.text = T_short
    /\ validate_enhanced_prompt(Unwrap(res).val) = Err(VErr("TooShort", ""))

C28_LevelInRange ==
    IsSome(options) =>
        \/ TheOptions.level = None
        \/ IsSome(TheOptions.level) /\ Unwrap(TheOptions.level) \in 1..5

\* record i of n as the loop feeds it
LoopRecord(td, i, n) ==
    /\ td.thought_number = i
    /\ td.total_thoughts = n
    /\ td.next_thought_needed = (i # n)
    /\ td.branch_id = None /\ td.branch_from_thought = None

\* C30: when execute() returns Ok (the first result passed the Gate and every
\* provider call succeeded), with thinking enabled and thought count n (3 when
\* absent) it has made max(1, n) provider calls and fed n records to a session
\* that started empty for this request: record i has thought_number i,
\* total_thoughts n and next_thought_needed = (i # n), the session holds
\* exactly i records while the provider call of iteration i runs, and the last
\* record carries the returned text; with thinking disabled it has made one
\* provider call and fed no record. This holds for every request, whatever
\* the requests before it did.
C30_CallsAndRecords ==
    /\ Succeeded =>
          IF ThinkingOn
          THEN /\ calls = (IF ThoughtCount >= 1 THEN ThoughtCount ELSE 1)
               /\ Len(thought_history) = ThoughtCount
               /\ \A i \in 1..Len(thought_history) :
                     LoopRecord(thought_history[i], i, ThoughtCount)
               /\ ThoughtCount >= 1 =>
                     Last(thought_history).thought = Unwrap(res).val.text
          ELSE calls = 1 /\ thought_history = <<>>
    /\ (pc \in {"send", "sleep"} /\ calls >= 2) =>
          /\ ThinkingOn
          /\ calls <= ThoughtCount
          /\ iter = calls - 1
          /\ Len(thought_history) = iter
          /\ \A i \in 1..Len(thought_history) :
                LoopRecord(thought_history[i], i, ThoughtCount)
    /\ (pc \in {"send", "sleep"} /\ calls = 1) => thought_history = <<>>

\* the second request, thinking on by default with the default count: three
\* provider calls and the records 1/3, 2/3, 3/3
C30_Witness ==
    /\ Succeeded
    /\ lineNo = 2
    /\ TheOptions.enable_sequential_thinking = None /\ default_enabled
    /\ TheOptions.thought_count = None
    /\ calls = 3
    /\ Len(thought_history) = 3
    /\ thought_history[3].next_thought_needed = FALSE

(***************************************************************************)
(* Properties of the configured default (SpecConfig).                      *)
(***************************************************************************)
\* a value spells word when case is ignored
Spells(str, word) ==
    /\ Len(str) = Len(word)
    /\ \A i \in 1..Len(str) : str[i].ch = word[i]

\* C29: the configured default is false exactly when
\* ENABLE_SEQUENTIAL_THINKING is set to false, 0, no or off, in any mix of
\* upper and lower case and with nothing before or after; it is true for true,
\* 1, yes, on, for every other value and when the variable is not set.
C29_DefaultFromEnv ==
    default_enabled =
        ~( /\ IsSome(env_thinking)
           /\ Unwrap(env_thinking).unicode
           /\ \E word \in {<<"f", "a", "l", "s", "e">>, <<"0">>, <<"n", "o">>,
                            <<"o", "f", "f">>} :
                 Spells(Unwrap(env_thinking).str, word) )

\* the variable is set to FALSE in upper case and the default is false
C29_Witness ==
    /\ env_thinking = EnvSet(Chars(<<"f", "a", "l", "s", "e">>, 1..5))
    /\ ~default_enabled

(***************************************************************************)
(* Properties of the refinement loop (SpecExecute).                        *)
(***************************************************************************)
\* a provider call of the loop (not the first call) is in flight
NestedCallInFlight == pc \in {"send", "sleep"} /\ calls >= 2

\* the provider call in flight returns in this step
CallReturns == pc = "send" /\ (pc' = "write" \/ calls' = calls + 1)

\* C31: the provider call of iteration i (i # n) is issued when thought i has
\* been processed with the current text: its prompt is the text of the current
\* `enhanced`, which is the text the previous provider call returned, and its
\* options are the request's with enable_sequential_thinking = false; when it
\* returns Ok its result replaces `enhanced` whole and thought i+1 is
\* processed with the new text; once thought n is processed no provider call
\* is made and execute() returns the current value, whose text and rationale
\* are those of the last provider call made.
C31_NestedCalls ==
    /\ [](NestedCallInFlight =>
            /\ iter = calls - 1 /\ iter < ThoughtCount
            /\ Len(thought_history) = iter
            /\ Last(thought_history).thought = Unwrap(enhanced).text
            /\ gw_prompt = Some([text |-> Unwrap(enhanced).text])
            /\ Unwrap(gw_prompt).text = TheCall.result.val.text
            /\ gw_options =
                  Some([TheOptions EXCEPT !.enable_sequential_thinking = Some(FALSE)]))
    /\ []((IsSome(options) /\ ThinkingOn /\ ThoughtCount >= 1
                /\ Len(thought_history) = ThoughtCount)
            => pc = "write" /\ calls = ThoughtCount)
    /\ [](Succeeded =>
            /\ Unwrap(res).val.text = TheCall.result.val.text
            /\ Unwrap(res).val.rationale = TheCall.result.val.rationale
            /\ Unwrap(res).val = Unwrap(enhanced)
            /\ calls >= 2 => Unwrap(res).val = TheCall.result.val)
    /\ [][ (NestedCallInFlight /\ CallReturns /\ Unwrap(last_call').result.ok)
           => /\ enhanced' = Some(Unwrap(last_call').result.val)
              /\ Len(thought_history') = Len(thought_history) + 1
              /\ SubSeq(thought_history', 1, Len(thought_history)) = thought_history
              /\ Last(thought_history').thought = Unwrap(last_call').result.val.text
              /\ IF Len(thought_history') = ThoughtCount
                 THEN pc' = "write" /\ calls' = calls
                      /\ res' = Some(Ok(Unwrap(last_call').result.val))
                 ELSE pc' = "send" /\ calls' = calls + 1 ]_vars

\* three thoughts: the third provider call is in flight with the text the
\* second call returned, after an explicit request for thinking
C31_Witness ==
    /\ NestedCallInFlight
    /\ calls = 3 /\ iter = 2
    /\ TheOptions.enable_sequential_thinking = Some(TRUE)
    /\ Unwrap(gw_options).enable_sequential_thinking = Some(FALSE)
    /\ Unwrap(gw_prompt).text = T_short
    /\ thought_history[2].thought = T_short

\* C32: when a provider call of the loop returns an error, execute() returns
\* that error in the same step: the value validated earlier is not returned,
\* no further record is processed, no further provider call is made, and the
\* response is the content envelope with isError = true carrying the error
\* and no enhanced text.
C32_NestedErrorFails ==
    /\ [][ (NestedCallInFlight /\ CallReturns /\ ~Unwrap(last_call').result.ok)
           => /\ pc' = "write"
              /\ res' = Some(Err(Unwrap(last_call').result.err))
              /\ thought_history' = thought_history
              /\ calls' = calls
              /\ gw_prompt' = None
              /\ enhanced' = None
              /\ IsContent(Unwrap(resp'))
              /\ Unwrap(Unwrap(resp').result).isError = Some(TRUE)
              /\ Unwrap(Unwrap(resp').result).text =
                    [lit |-> "tool error: ", txt |-> <<>>,
                     err |-> Some(Unwrap(last_call').result.err)] ]_vars
    /\ []((pc = "write" /\ IsSome(res) /\ ~Unwrap(res).ok /\ calls >= 2) =>
             /\ Unwrap(res).err.cls = "provider"
             /\ Unwrap(res) = TheCall.result
             /\ Len(thought_history) = calls - 1)

\* the first result was accepted and a thought processed, then the second
\* provider call got a non-success status: execute() failed with RequestFailed
C32_Witness ==
    /\ pc = "write"
    /\ calls = 2
    /\ IsSome(res) /\ ~Unwrap(res).ok
    /\ Unwrap(res).err.name = "RequestFailed"
    /\ Len(thought_history) = 1
    /\ validate_enhanced_prompt([text |-> thought_history[1].thought]).ok
    /\ enhanced = None
    /\ Unwrap(TheResp.result).isError = Some(TRUE)

\* max(1, n) for this request
MaxCallsOfRequest == IF ThoughtCount >= 1 THEN ThoughtCount ELSE 1

\* C33: while a request is handled, it has caused at most max(1, n) provider
\* calls (one when thinking is off) and at most 3 outbound requests per call,
\* so at most 3 * max(1, n) in all, and at most n thought records; when
\* every outbound request and every backoff delay comes to an end, every
\* execute() call returns.
C33_ExecuteTerminates ==
    /\ [](IsSome(options) =>
            /\ calls <= MaxCallsOfRequest
            /\ ~ThinkingOn => calls <= 1
            /\ tries <= 3 * calls
            /\ tries <= 3 * MaxCallsOfRequest
            /\ Len(thought_history) <= ThoughtCount)
    /\ (pc \in {"send", "sleep"}) ~> (pc = "write" /\ IsSome(res))

\* three thoughts and three outbound requests in each provider call: execute()
\* has returned after 3 calls and 9 outbound requests
C33_Witness ==
    /\ pc = "write" /\ IsSome(res)
    /\ ThoughtCount = 3
    /\ calls = 3
    /\ tries = 9

(***************************************************************************)
(* Further properties of the server (Spec).                                *)
(***************************************************************************)
\* the request is a tools/call of enhance_prompt whose params and arguments parse
CallsEnhance(r) ==
    /\ r.method = "tools/call"
    /\ r.params.t = "obj"
    /\ Has(r.params, "name")
    /\ r.params.o.name = JStr("enhance_prompt")
    /\ ~MalformedArgs(IF Has(r.params, "arguments") THEN r.params.o.arguments ELSE JNull)

\* nothing of the Orchestrator, the Gateway or the Thinking Engine has run
NothingInvoked ==
    /\ IsNone(prompt) /\ IsNone(options) /\ IsNone(res) /\ IsNone(enhanced)
    /\ calls = 0 /\ tries = 0 /\ IsNone(last_call) /\ IsNone(gw_prompt)
    /\ gw_log = <<>> /\ ~degraded
    /\ thought_history = <<>> /\ branches = <<>>

\* C34: execute() runs, a provider call is made or a thought record exists
\* only while the line being handled is a tools/call whose params parse,
\* whose name is enhance_prompt and whose arguments parse, and for such a
\* line execute() is called; for a blank or unparsable line, initialize,
\* mcp/initialize, tools/list, ping, shutdown, an unknown method, an unknown
\* tool or malformed arguments nothing of them has run when the response is
\* built, nor between two lines.
C34_InvokedOnlyForEnhance ==
    /\ pc \in {"read", "done"} => NothingInvoked
    /\ pc \in {"send", "sleep"} => IsSome(req) /\ CallsEnhance(TheReq)
    /\ pc = "write" =>
          IF IsSome(req) /\ CallsEnhance(TheReq)
          THEN IsSome(prompt) /\ IsSome(res) /\ (calls >= 1 \/ ~headers_ok)
          ELSE NothingInvoked

\* the second line calls an unknown tool with arguments that would parse, and
\* its response is built with no provider call made
C34_Witness ==
    /\ pc = "write"
    /\ lineNo = 2
    /\ IsSome(req)
    /\ TheReq.method = "tools/call"
    /\ TheReq.params = JObj([name |-> JStr("unknown_tool"),
                             arguments |-> JObj([prompt |-> JText(P_long)])])
    /\ NothingInvoked

\* C35: every response built for writing carries exactly one of result and
\* error; the response to a parsed request carries the id of that request as
\* it was parsed (none when the request had none), whatever the method and the
\* outcome; the response to an unparsable line carries no id; the id written
\* to stdout is the id of the response.
C35_OneOfResultErrorAndId ==
    /\ pc = "write" =>
          /\ IsSome(resp)
          /\ IsSome(TheResp.result) # IsSome(TheResp.error)
          /\ IF IsSome(req) THEN TheResp.id = TheReq.id ELSE TheResp.id = None
    /\ pc # "write" => IsNone(resp)
    /\ \A j \in 1..Len(out) : out[j].sort = "parse error" => out[j].id = None

\* the third line, a request without id for a malformed tools/call, is answered
\* with an error and no id after two lines with ids were answered with theirs
C35_Witness ==
    /\ pc = "write"
    /\ lineNo = 3
    /\ IsSome(req) /\ TheReq.id = None
    /\ HasCode(TheResp, -32602)
    /\ TheResp.id = None
    /\ Len(out) = 2
    /\ out[1].id = Some(JNum(1)) /\ out[2].id = Some(JNum(1))

\* the response to line k is on stdout
Answered(k) == \E j \in 1..Len(out) : out[j].line = k

\* C36: when every outbound request and every backoff delay comes to an end
\* and every write to stdout finishes, each non-blank line that has been read
\* is eventually followed by its response on stdout, unless a write to stdout
\* fails; at end of input the loop is left at once, and once it is left the
\* server takes no further step.
C36_EveryLineAnswered ==
    /\ \A k \in 1..MaxLines :
          (lineNo = k /\ pc \in {"send", "sleep", "write"})
              ~> (Answered(k) \/ exit = "write_error")
    /\ [](exit = "eof" => pc = "done")
    /\ [][pc # "done"]_vars

\* three non-blank lines have been read and the third has its response
C36_Witness ==
    /\ pc = "read"
    /\ lineNo = 3
    /\ Answered(3)
    /\ out[Len(out)].line = 3
    /\ Len(out) = 3

\* the delays of a provider call that made n outbound requests so far
DelaysAfter(n) == IF n <= 1 THEN <<>> ELSE IF n = 2 THEN <<500>> ELSE <<500, 1000>>

\* C37: the attempt counter belongs to one provider call: every provider call
\* starts with zero attempts and an empty record, whatever earlier calls of the
\* same request or of earlier requests consumed; during a call the counter is
\* the number of outbound requests of that call alone, with the delays 500ms
\* and 1000ms after its own first and second failure; a call that fails three
\* times makes three requests however many were made before it; and the
\* Gateway's configuration never changes.
C37_AttemptsPerCall ==
    /\ [][ (calls' > calls \/ lineNo' # lineNo) => attempts' = 0 /\ gw_log' = <<>> ]_vars
    /\ [][ headers_ok' = headers_ok ]_vars
    /\ [](pc \in {"send", "sleep"} =>
            /\ attempts = Len(Sends(gw_log))
            /\ attempts <= 2
            /\ Delays(gw_log) = DelaysAfter(IF pc = "send" THEN attempts + 1 ELSE attempts)
            /\ tries >= attempts
            /\ calls = 1 => tries = attempts)
    /\ [](pc \notin {"send", "sleep"} => attempts = 0 /\ gw_log = <<>>)
    /\ [](IsSome(last_call) =>
            /\ TheCall.attempts = Len(Sends(TheCall.log))
            /\ Delays(TheCall.log) = DelaysAfter(TheCall.attempts)
            /\ (TheCall.log # <<>> /\ Failed(Last(TheCall.log))) => TheCall.attempts = 3)

\* the second provider call of a request made three requests with the delays
\* 500ms and 1000ms after the first call had made three as well
C37_Witness ==
    /\ IsSome(last_call)
    /\ calls = 2
    /\ tries = 6
    /\ TheCall.attempts = 3
    /\ Delays(TheCall.log) = <<500, 1000>>

(***************************************************************************)
(* Further properties of one thinking session (SpecThinking).              *)
(***************************************************************************)
\* the k-th call was accepted and j is the place of its record and of its line
RecordOf(k, j) == s_rets[k].ok /\ j = OkCount(k)

\* the marker the input of a call asks for
MarkerOfInput(input) ==
    IF Has(input, "isRevision") /\ input.o.isRevision = JBool(TRUE) THEN "Revision"
    ELSE IF Has(input, "branchFromThought") THEN "Branch"
    ELSE "Thought"

\* C38 (as claimed): the line printed for a record has the marker "revision"
\* when the input marks it as a revision, else "branch" when the input has
\* branch_from_thought, else "thought", then thought_number/total_thoughts
\* after the raise, and the thought text.
C38_MarkerFromInput ==
    \A k \in 1..Len(s_rets) :
        s_rets[k].ok =>
            /\ s_lines[OkCount(k)].prefix = MarkerOfInput(s_fed[k])
            /\ s_lines[OkCount(k)].thought_number = s_rets[k].val.thoughtNumber
            /\ s_lines[OkCount(k)].total_thoughts = s_rets[k].val.totalThoughts
            /\ s_lines[OkCount(k)].thought = AsStr(s_fed[k].o.thought)

\* the input carries both branchFromThought (a number) and branchId (a string)
BranchInput(input) ==
    /\ Has(input, "branchFromThought") /\ IsU64(input.o.branchFromThought)
    /\ Has(input, "branchId") /\ IsString(input.o.branchId)

\* the branch ids given, with branchFromThought, to the accepted calls 1..k
BranchesFed(k) ==
    {AsStr(s_fed[j].o.branchId) : j \in {i \in Accepted(k) : BranchInput(s_fed[i])}}

\* sequence a is the start of sequence b
StartOf(a, b) == Len(a) <= Len(b) /\ a = SubSeq(b, 1, Len(a))

\* the branch mapping loses no branch and no record of a branch, and changes
\* only in an accepted call whose input has both branch fields
BranchesGrow ==
    /\ DOMAIN s_br \subseteq DOMAIN s_br'
    /\ \A B \in DOMAIN s_br : StartOf(s_br[B], s_br'[B])
    /\ s_br' # s_br =>
          /\ Len(s_fed') = Len(s_fed) + 1
          /\ s_rets'[Len(s_fed')].ok
          /\ BranchInput(s_fed'[Len(s_fed')])
          /\ DOMAIN s_br' = DOMAIN s_br \cup {AsStr(s_fed'[Len(s_fed')].o.branchId)}
          /\ \A B \in DOMAIN s_br' :
                Len(s_br'[B]) = (IF B \in DOMAIN s_br THEN Len(s_br[B]) ELSE 0)
                                + (IF B = AsStr(s_fed'[Len(s_fed')].o.branchId) THEN 1 ELSE 0)

\* C39: over all calls of one session the branch mapping only grows, and a
\* sub-sequence is created or extended only by an accepted record that has
\* both branch_from_thought and branch_id; every record in the sub-sequence
\* of branch B carries branch_id B and is in the main sequence; the branches
\* returned by each accepted call are all branch ids recorded up to that
\* call, whatever the current record is.
C39_BranchesOnlyGrow ==
    /\ [][BranchesGrow]_vars
    /\ [](\A B \in DOMAIN s_br : \A i \in 1..Len(s_br[B]) :
             /\ s_br[B][i].branch_id = Some(B)
             /\ IsSome(s_br[B][i].branch_from_thought)
             /\ \E j \in 1..Len(s_hist) : s_hist[j] = s_br[B][i])
    /\ [](\A k \in 1..Len(s_rets) :
             s_rets[k].ok => s_rets[k].val.branches = BranchesFed(k))

\* a plain record was accepted after records of the branches "a" and "b", and
\* its call returned both branch ids
C39_Witness ==
    /\ Len(s_rets) = 3 /\ s_rets[3].ok
    /\ ~Has(s_fed[3], "branchId") /\ ~Has(s_fed[3], "branchFromThought")
    /\ s_rets[3].val.branches = {"a", "b"}
    /\ DOMAIN s_br = {"a", "b"}
    /\ Len(s_hist) = 3

\* the 32-bit number x is the number the JSON value v gives
SameNumber(x, v) == v.hi = 0 /\ v.n = x

\* the 32-bit number x is at least the number the JSON value v gives
AtLeastNumber(x, v) == v.hi = 0 /\ x >= v.n

\* C40 (as claimed): for every accepted input, numbers of 2^32 and more
\* included, the thoughtNumber returned and the thought_number stored equal
\* the thoughtNumber given, and the total_thoughts stored is at least the
\* totalThoughts given.
C40_NumbersKept ==
    \A k \in 1..Len(s_rets) :
        s_rets[k].ok =>
            /\ SameNumber(s_rets[k].val.thoughtNumber, s_fed[k].o.thoughtNumber)
            /\ SameNumber(s_hist[OkCount(k)].thought_number, s_fed[k].o.thoughtNumber)
            /\ AtLeastNumber(s_hist[OkCount(k)].total_thoughts, s_fed[k].o.totalThoughts)

====
